---- MODULE Spec2Model ----
\* bootupd: the component-update engine.
\* The persisted SavedState (/boot/bootupd-state.json), the operations install,
\* update and adopt_and_update that read and write it, the write lock, the EFI
\* component's ESP mount cell and the BIOS component's per-disk grub2-install.
\* Several invocations of the program (processes) run against one root.
EXTENDS Integers, Sequences, FiniteSets, TLC

\* ---------------------------------------------------------------- bounds
\* whole disks in rootcxt.devices; disk d carries the ESP numbered d
NDisks == 2
\* Spec: operations (install / update / adopt_and_update) run one after another
MaxOps == 1
\* Spec: process kills in one behaviour
MaxCrashes == 1
\* Spec: new OS images (changes of the available update metadata) in one behaviour
MaxImages == 1
\* SpecRace: invocations that may run at the same time, each one operation
MaxPar == 2
\* SpecEsp: operations in one behaviour
MaxEspOps == 1

\* concurrent invocations of the program
Procs == {"p1", "p2"}
NoProc == "nobody"

Components == {"BIOS", "EFI"}
\* BTreeMap iteration order of get_components_impl(false)
ComponentOrder == <<"BIOS", "EFI">>

Devices == [d \in 1..NDisks |-> d]

\* ESP_MOUNTS: 1 = boot/efi, 2 = efi, 3 = boot
ESP_MOUNTS == <<"boot/efi", "efi", "boot">>
MountIdx == 1..Len(ESP_MOUNTS)

\* ------------------------------------------------- package-version oracle
\* A Module is [name, rpm_evr]; names are numbered in string order
\* (1 = "grub2", 2 = "shim"), rpm_evr is numbered in UAPI version order.
Mod(n, v) == [name |-> n, rpm_evr |-> v]

\* Ord for Module: names first, then versions
ModuleCmp(a, b) ==
    IF a.name < b.name THEN "Less"
    ELSE IF a.name > b.name THEN "Greater"
    ELSE IF a.rpm_evr < b.rpm_evr THEN "Less"
    ELSE IF a.rpm_evr > b.rpm_evr THEN "Greater"
    ELSE "Equal"

Min2(x, y) == IF x < y THEN x ELSE y

\* variant: a Less pair does not end the loop and is forgotten
RECURSIVE ZipCmp_ignore_less(_, _, _, _)
ZipCmp_ignore_less(a, b, i, has_greater) ==
    IF i > Min2(Len(a), Len(b)) THEN
        IF Len(a) < Len(b) THEN "Less"
        ELSE IF Len(a) > Len(b) THEN "Greater"
        ELSE IF has_greater THEN "Greater"
        ELSE "Equal"
    ELSE ZipCmp_ignore_less(a, b, i + 1, has_greater \/ ModuleCmp(a[i], b[i]) = "Greater")

\* the zip loop of compare_package_slices from position i on
RECURSIVE ZipCmp(_, _, _, _)
ZipCmp(a, b, i, has_greater) ==
    IF i > Min2(Len(a), Len(b)) THEN
        IF Len(a) < Len(b) THEN "Less"
        ELSE IF Len(a) > Len(b) THEN "Greater"
        ELSE IF has_greater THEN "Greater"
        ELSE "Equal"
    ELSE IF ModuleCmp(a[i], b[i]) = "Less" THEN "Less"
    ELSE ZipCmp(a, b, i + 1, has_greater \/ ModuleCmp(a[i], b[i]) = "Greater")

compare_package_slices(a, b) == ZipCmp(a, b, 1, FALSE)

\* The ContentMetadata values of the model, by id; 0 is "no metadata" (None).
\* Each is given by its sorted `versions` list.
MetaVersions ==
    << <<Mod(1, 1), Mod(2, 1)>>,
       <<Mod(1, 2), Mod(2, 1)>>,
       <<Mod(1, 1), Mod(2, 2)>>,
       <<Mod(1, 2), Mod(2, 2)>> >>
MetaIds == 1..Len(MetaVersions)
OptMeta == 0..Len(MetaVersions)
\* the version synthesized by query_adopt_state (versions: None)
AdoptVersion == Len(MetaVersions) + 1

\* ContentMetadata::can_upgrade_to
can_upgrade_to(self, target) ==
    compare_package_slices(MetaVersions[self], MetaVersions[target])

\* ComponentUpdatable::from_metadata
from_metadata(from, to) ==
    IF to = 0 THEN "NoUpdateAvailable"
    ELSE IF can_upgrade_to(from, to) = "Equal" THEN "AtLatestVersion"
    ELSE IF can_upgrade_to(from, to) = "Less" THEN "Upgradable"
    ELSE "WouldDowngrade"

\* ----------------------------------------------------------- data model
\* InstalledContent; an absent map entry is NoInst (meta = 0)
InstalledContent(m, ft, af) == [meta |-> m, filetree |-> ft, adopted_from |-> af]
NoInst == InstalledContent(0, 0, 0)
NoPending == [c \in Components |-> 0]

\* SavedState::default()
DefaultState ==
    [installed |-> [c \in Components |-> NoInst],
     pending_some |-> FALSE,
     pending |-> NoPending,
     static_configs |-> FALSE]

InstalledKeys(st) == {c \in Components : st.installed[c].meta # 0}
PendingKeys(st) == IF st.pending_some THEN {c \in Components : st.pending[c] # 0} ELSE {}

NoFile == [present |-> FALSE, saved |-> DefaultState]

\* SavedState::load_from_disk: Option<SavedState>, as a sequence of length <= 1
load_from_disk(file) == IF file.present THEN <<file.saved>> ELSE <<>>
unwrap_or_default(opt) == IF opt = <<>> THEN DefaultState ELSE opt[1]

\* StateLockGuard::update_state: the file is replaced atomically by `st`
update_state(st) == [present |-> TRUE, saved |-> st]

\* SavedState::ensure_not_present
ensure_not_present(file) == ~file.present


\* Component::query_update -> get_component_update: the update metadata shipped
\* in the booted image, 0 when the <Component>.json file is absent
query_update(av, name) == av[name]

\* one ComponentStatus of status(): the entry of `name` when it is installed
status_component(file, av, name) ==
    LET state == unwrap_or_default(load_from_disk(file))
        ic == state.installed[name]
    IN [present |-> file.present /\ ic.meta # 0,
        installed |-> ic.meta,
        interrupted |-> IF state.pending_some THEN state.pending[name] ELSE 0,
        update |-> query_update(av, name),
        updatable |-> IF ic.meta = 0 THEN "NotInstalled"
                      ELSE from_metadata(ic.meta, query_update(av, name)),
        adopted_from |-> ic.adopted_from]

\* --------------------------------------------------------------- state
VARIABLES
    stateFile,  \* /boot/bootupd-state.json: [present, saved]
    lock,       \* holder of the exclusive write lock, or NoProc
    avail,      \* available update metadata of each component (0 = none)
    mpExists,   \* which of the ESP_MOUNTS directories exist under the root
    mnt,        \* mount table: FAT filesystem (ESP number) mounted at each of ESP_MOUNTS, 0 = none
    esp,        \* content (filetree id) of each ESP, 0 = content not written by bootupd
    grub,       \* boot code written by grub2-install to each whole disk (meta id)
    bootloader, \* ostree repo option sysroot.bootloader: "unset" or "none"
    proc,       \* per invocation: position, locals, the Efi mount cell, event log, result
    budget,     \* what the behaviour may still do: operations, parallelism, crashes, images
    call,       \* one call of a library function checked on its own: inputs, position, outputs
    grub2dir    \* /boot/grub2: grub.cfg, what it links to, grub.cfg.backup, grub.cfg.stripped, the BLS marker

vars == <<stateFile, lock, avail, mpExists, mnt, esp, grub, bootloader, proc, budget, call,
          grub2dir>>

\* no library call under check
NoCall == [pc |-> "none"]

\* a file of /boot/grub2 as the lines it holds, or no such file
Absent == [exists |-> FALSE, lines |-> <<>>]
FileOf(lines) == [exists |-> TRUE, lines |-> lines]

\* /boot/grub2 with a static grub.cfg and nothing to migrate; `original` is
\* history: what grub.cfg linked to before the first run, which nothing reads
StaticGrub2Dir ==
    [cfg |-> [kind |-> "file", lines |-> <<>>], target |-> Absent, backup |-> Absent,
     stripped |-> Absent, marker |-> FALSE, original |-> Absent]

ProcOrder == <<"p1", "p2">>

NoStatus == status_component(NoFile, [c \in Components |-> 0], "EFI")

\* the outcome of an operation: what it returned (or where it died) and, as
\* history, what status() reports for its component right afterwards
Result(kind, at, previous, interrupted, new, status) ==
    [kind |-> kind, at |-> at, previous |-> previous, interrupted |-> interrupted,
     new |-> new, status |-> status]
NoRes == Result("none", "", 0, 0, 0, NoStatus)

ProcInit ==
    [pc |-> "idle", op |-> "none", name |-> "none", with_static_config |-> FALSE,
     state |-> DefaultState, inst |-> NoInst, update |-> 0,
     pending_container |-> NoPending, interrupted |-> 0, newinst |-> NoInst,
     mountpoint |-> 0, i |-> 0, device |-> 0, targets |-> <<>>,
     loaded |-> <<>>, log |-> <<>>, errs |-> <<>>, res |-> NoRes]

Event(ev, dev, mp, ok) == [ev |-> ev, dev |-> dev, mp |-> mp, ok |-> ok]

\* ------------------------------------------------------------- helpers
Idle(p) == proc[p].pc = "idle"

\* a new invocation takes the first free process slot
CanStart(p) ==
    /\ Idle(p)
    /\ budget.ops > 0
    /\ Cardinality({q \in Procs : ~Idle(q)}) < budget.par
    /\ \A i \in 1..Len(ProcOrder) :
          ProcOrder[i] = p => \A j \in 1..(i - 1) : ~Idle(ProcOrder[j])

Started(op, name) == [ProcInit EXCEPT !.op = op, !.name = name]

\* the invocation ends (return or error): locals are gone; what it loaded, its
\* event log and its result stay as history
Leave(p, r, res) ==
    proc' = [proc EXCEPT ![p] =
                [ProcInit EXCEPT !.op = r.op, !.name = r.name,
                                 !.with_static_config = r.with_static_config,
                                 !.loaded = r.loaded, !.log = r.log,
                                 !.errs = r.errs, !.res = res]]

\* dropping the StateLockGuard releases the lock
Unlock(p) == lock' = IF lock = p THEN NoProc ELSE lock

CountOp == budget' = [budget EXCEPT !.ops = @ - 1]

Err(at, r, file) ==
    Result("error", at, r.inst.meta, r.interrupted, r.update,
           status_component(file, avail, r.name))

\* ------------------------------------------------------------- update()
\* state after `state.pending.take()`: the Option in `state` is left None
take_pending(state) == [state EXCEPT !.pending_some = FALSE, !.pending = NoPending]

\* variant: the loaded pending map is not consulted
pending_container_empty(state) == NoPending

\* `state.pending.take().unwrap_or_default()`
pending_container_of(state) == IF state.pending_some THEN state.pending ELSE NoPending

\* variant: the new InstalledContent is not inserted
UpdateFinalState_unchanged(state, name, newinst) == state

\* `state.installed.insert(component.name().into(), newinst)`; the following
\* `pending_container.remove(..)` changes the local map only
UpdateFinalState(state, name, newinst) == [state EXCEPT !.installed[name] = newinst]

\* ComponentUpdateResult::Updated { previous: inst.meta, interrupted, new: update }
UpdatedResult(r, file) ==
    Result("Updated", "return", r.inst.meta, r.interrupted, r.update,
           status_component(file, avail, r.name))

\* variant: any available update is taken
update_wanted_any(meta, update) == update # 0

\* the match on query_update and can_upgrade_to in update(): Some(p) with
\* current < available goes on, everything else is AtLatestVersion
update_wanted(meta, update) == update # 0 /\ can_upgrade_to(meta, update) = "Less"

\* update(), up to the lock: load the state, look the component up, compare
\* versions, ensure /boot is writable, prepare the pending container
UpdateLoad(p, name) ==
    /\ CanStart(p)
    /\ CountOp
    /\ UNCHANGED <<stateFile, lock, avail, mpExists, call, grub2dir, mnt, esp, grub, bootloader>>
    /\ LET state == unwrap_or_default(load_from_disk(stateFile))
           inst == state.installed[name]
           update == query_update(avail, name)
           r0 == [Started("update", name) EXCEPT
                     !.inst = inst, !.loaded = load_from_disk(stateFile)]
       IN IF inst.meta = 0
          THEN Leave(p, r0, Err("not_installed", r0, stateFile))
          ELSE IF ~update_wanted(inst.meta, update)
          THEN Leave(p, r0, Result("AtLatestVersion", "return", inst.meta, 0, 0,
                                   status_component(stateFile, avail, name)))
          ELSE \E writable \in BOOLEAN :
                 IF ~writable
                 THEN Leave(p, r0, Err("ensure_writable_boot", r0, stateFile))
                 ELSE proc' = [proc EXCEPT ![p] =
                         [r0 EXCEPT !.pc = "u_lock",
                                    !.update = update,
                                    !.state = take_pending(state),
                                    !.pending_container =
                                        [pending_container_of(state) EXCEPT ![name] = update],
                                    !.interrupted = pending_container_of(state)[name]]]

\* SavedState::acquire_write_lock: blocks while another invocation holds it
UpdateLock(p) ==
    /\ proc[p].pc = "u_lock"
    /\ lock = NoProc
    /\ lock' = p
    /\ proc' = [proc EXCEPT ![p].pc = "u_write1"]
    /\ UNCHANGED <<stateFile, avail, mpExists, call, grub2dir, mnt, esp, grub, bootloader, budget>>

\* first `state_guard.update_state(&state)`, then into component.run_update
UpdateWritePending(p) ==
    /\ proc[p].pc = "u_write1"
    /\ UNCHANGED <<avail, mpExists, call, grub2dir, mnt, esp, grub, bootloader, budget>>
    /\ \E ok \in BOOLEAN :
         IF ok
         THEN /\ stateFile' = update_state(proc[p].state)
              /\ proc' = [proc EXCEPT ![p].pc =
                            IF proc[p].name = "BIOS" THEN "b_disk" ELSE "e_start",
                                      ![p].i = 1]
              /\ UNCHANGED lock
         ELSE /\ UNCHANGED stateFile
              /\ Leave(p, proc[p], Err("update_state", proc[p], stateFile))
              /\ Unlock(p)

\* after run_update: insert the new InstalledContent, write, return Updated
UpdateWriteFinal(p) ==
    /\ proc[p].pc = "u_write2"
    /\ UNCHANGED <<avail, mpExists, call, grub2dir, mnt, esp, grub, bootloader, budget>>
    /\ Unlock(p)
    /\ \E ok \in BOOLEAN :
         IF ok
         THEN LET file == update_state(
                            UpdateFinalState(proc[p].state, proc[p].name, proc[p].newinst))
              IN /\ stateFile' = file
                 /\ Leave(p, proc[p], UpdatedResult(proc[p], file))
         ELSE /\ UNCHANGED stateFile
              /\ Leave(p, proc[p], Err("update_state_final", proc[p], stateFile))

\* ------------------------------------------------------ BIOS component
Log(r, e) == [r EXCEPT !.log = Append(@, e)]

\* variant: every second disk
BiosNextDisk_skip(i) == i + 2

\* `for parent in rootcxt.devices.iter()`: the disk after position i
BiosNextDisk(i) == i + 1

\* one iteration of the loop of Bios::run_update / Bios::adopt_update:
\* run_grub_install on disk i; `?` returns the error of a failed run at once
BiosGrubInstall(p) ==
    /\ proc[p].pc = "b_disk"
    /\ proc[p].i <= NDisks
    /\ UNCHANGED <<stateFile, avail, mpExists, call, grub2dir, mnt, esp, bootloader, budget>>
    /\ LET r == proc[p]
           dev == Devices[r.i]
       IN \E ok \in BOOLEAN :
            IF ok
            THEN /\ grub' = [grub EXCEPT ![dev] = query_update(avail, "BIOS")]
                 /\ proc' = [proc EXCEPT ![p] =
                               [Log(r, Event("grub", dev, 0, TRUE)) EXCEPT
                                   !.i = BiosNextDisk(r.i)]]
                 /\ UNCHANGED lock
            ELSE /\ UNCHANGED grub
                 /\ Leave(p, Log(r, Event("grub", dev, 0, FALSE)),
                          Err("run_grub_install", r, stateFile))
                 /\ Unlock(p)

\* variant: the content is recorded with the metadata it had before
run_update_content_current(current, updatemeta, filetree) ==
    InstalledContent(current.meta, filetree, 0)

\* the InstalledContent run_update returns: { meta: updatemeta, filetree,
\* adopted_from: None }; `current` is not looked at
run_update_content(current, updatemeta, filetree) ==
    InstalledContent(updatemeta, filetree, 0)

\* Bios::run_update after the loop: InstalledContent { meta: updatemeta,
\* filetree: None, adopted_from: None }
BiosRunUpdateDone(p) ==
    /\ proc[p].pc = "b_disk"
    /\ proc[p].op = "update"
    /\ proc[p].i > NDisks
    /\ proc' = [proc EXCEPT ![p].pc = "u_write2",
                            ![p].newinst =
                                run_update_content(proc[p].inst,
                                                   query_update(avail, "BIOS"), 0)]
    /\ UNCHANGED <<stateFile, lock, avail, mpExists, call, grub2dir, mnt, esp, grub, bootloader, budget>>

\* ------------------------------------------------------- EFI component
\* get_mounted_esp: the first existing well-known mount point that is FAT
RECURSIVE FirstFatFrom(_, _, _)
FirstFatFrom(exists, table, m) ==
    IF m > Len(ESP_MOUNTS) THEN 0
    ELSE IF exists[m] /\ table[m] # 0 THEN m
    ELSE FirstFatFrom(exists, table, m + 1)
get_mounted_esp(exists, table) == FirstFatFrom(exists, table, 1)

\* mount_esp_device: the first existing well-known mount point
RECURSIVE FirstExistingFrom(_, _)
FirstExistingFrom(exists, m) ==
    IF m > Len(ESP_MOUNTS) THEN 0
    ELSE IF exists[m] THEN m
    ELSE FirstExistingFrom(exists, m + 1)
mount_esp_device(exists) == FirstExistingFrom(exists, 1)

\* `for esp in esp_devices.iter()`: find_colocated_esps lists the ESP of each disk
esp_devices == Devices

\* error return out of an Efi method: the Efi value is dropped with the
\* invocation, and Drop unmounts whatever the mount cell holds (result ignored)
EfiErrorExitFrom(p, r, at, table) ==
    /\ Unlock(p)
    /\ IF r.mountpoint = 0
       THEN /\ mnt' = table
            /\ Leave(p, r, Err(at, r, stateFile))
       ELSE \E ok \in BOOLEAN :
              /\ mnt' = IF ok THEN [table EXCEPT ![r.mountpoint] = 0] ELSE table
              /\ Leave(p, Log(r, Event("drop_umount", table[r.mountpoint], r.mountpoint, ok)),
                       Err(at, r, stateFile))

EfiErrorExit(p, r, at) == EfiErrorExitFrom(p, r, at, mnt)

\* Efi::run_update before the loop
EfiRunUpdateStart(p) ==
    /\ proc[p].pc = "e_start"
    /\ proc[p].op = "update"
    /\ UNCHANGED <<stateFile, avail, mpExists, call, grub2dir, esp, grub, bootloader, budget>>
    /\ IF proc[p].inst.filetree = 0
       THEN EfiErrorExit(p, proc[p], "no_filetree")
       ELSE /\ proc' = [proc EXCEPT ![p].pc = "e_mount"]
            /\ UNCHANGED <<lock, mnt>>

\* where the caller of ensure_mounted_esp goes on: Efi::validate reads the
\* mounted ESP, run_update and adopt_update write to it
AfterMount(r) == IF r.op = "validate" THEN "v_diff" ELSE "e_apply"

\* ensure_mounted_esp(root, esp) for the ESP at position i
EfiEnsureMounted(p) ==
    /\ proc[p].pc = "e_mount"
    /\ proc[p].i <= Len(esp_devices)
    /\ UNCHANGED <<stateFile, avail, mpExists, call, grub2dir, esp, grub, bootloader, budget>>
    /\ LET r == proc[p]
           dev == esp_devices[r.i]
           found == get_mounted_esp(mpExists, mnt)
           target == mount_esp_device(mpExists)
       IN IF r.mountpoint # 0
          THEN /\ proc' = [proc EXCEPT ![p].pc = AfterMount(r)]
               /\ UNCHANGED <<lock, mnt>>
          ELSE IF found # 0
          THEN \* reuse; ensure_writable_mount may fail to remount
               \E ok \in BOOLEAN :
                 IF ok
                 THEN /\ proc' = [proc EXCEPT ![p] =
                            [Log(r, Event("reuse", mnt[found], found, TRUE)) EXCEPT
                                !.pc = AfterMount(r), !.mountpoint = found]]
                      /\ UNCHANGED <<lock, mnt>>
                 ELSE EfiErrorExit(p, r, "ensure_writable_mount")
          ELSE IF target = 0
          THEN EfiErrorExit(p, r, "no_mount_point")
          ELSE \E ok \in BOOLEAN :
                 IF ok
                 THEN /\ mnt' = [mnt EXCEPT ![target] = dev]
                      /\ proc' = [proc EXCEPT ![p] =
                            [Log(r, Event("mount", dev, target, TRUE)) EXCEPT
                                !.pc = AfterMount(r), !.mountpoint = target]]
                      /\ UNCHANGED lock
                 ELSE EfiErrorExit(p, r, "mount")

\* variant: the loop body goes from apply_diff straight to the unmount
applied_and_synced_unsynced(r, fs, sync_ok) ==
    Log(r, Event("apply", fs, r.mountpoint, TRUE))

\* what the loop body has done once apply_diff has succeeded: the files are
\* written, then fsfreeze_thaw_cycle runs on the EFI directory
applied_and_synced(r, fs, sync_ok) ==
    Log(Log(r, Event("apply", fs, r.mountpoint, TRUE)),
        Event("freeze", fs, r.mountpoint, sync_ok))

\* the body of the loop between mounting and unmounting: open the EFI
\* directory, validate_esp_fstype, apply_diff, fsfreeze_thaw_cycle
EfiApply(p) ==
    /\ proc[p].pc = "e_apply"
    /\ UNCHANGED <<stateFile, avail, mpExists, call, grub2dir, grub, bootloader, budget>>
    /\ LET r == proc[p]
           fs == mnt[r.mountpoint]
           updatef == query_update(avail, "EFI")
       IN \E outcome \in {"ok", "fail_open", "fail_apply", "fail_freeze"} :
            /\ fs = 0 => outcome = "fail_open"
            /\ IF outcome = "ok"
               THEN /\ esp' = [esp EXCEPT ![fs] = updatef]
                    /\ proc' = [proc EXCEPT ![p] =
                          [applied_and_synced(r, fs, TRUE) EXCEPT !.pc = "e_umount"]]
                    /\ UNCHANGED <<lock, mnt>>
               ELSE /\ esp' = IF outcome = "fail_open" THEN esp
                              ELSE IF outcome = "fail_apply" THEN [esp EXCEPT ![fs] = 0]
                              ELSE [esp EXCEPT ![fs] = updatef]
                    /\ EfiErrorExit(p,
                          IF outcome = "fail_open" THEN r
                          ELSE IF outcome = "fail_apply"
                          THEN Log(r, Event("apply", fs, r.mountpoint, FALSE))
                          ELSE applied_and_synced(r, fs, FALSE),
                          outcome)

\* Efi::unmount at the end of the loop body: take the mount cell, run umount
EfiUnmount(p) ==
    /\ proc[p].pc = "e_umount"
    /\ UNCHANGED <<stateFile, avail, mpExists, call, grub2dir, esp, grub, bootloader, budget>>
    /\ LET r == proc[p]
           mp == r.mountpoint
           taken == [r EXCEPT !.mountpoint = 0]
       IN \E ok \in BOOLEAN :
            IF ok
            THEN /\ mnt' = [mnt EXCEPT ![mp] = 0]
                 /\ proc' = [proc EXCEPT ![p] =
                       [Log(taken, Event("umount", mnt[mp], mp, TRUE)) EXCEPT
                           !.pc = "e_mount", !.i = r.i + 1]]
                 /\ UNCHANGED lock
            ELSE EfiErrorExit(p, Log(taken, Event("umount", mnt[mp], mp, FALSE)), "umount")

\* Efi::run_update after the loop: InstalledContent { meta: updatemeta,
\* filetree: Some(updatef), adopted_from: None }
EfiRunUpdateDone(p) ==
    /\ proc[p].pc = "e_mount"
    /\ proc[p].op = "update"
    /\ proc[p].i > Len(esp_devices)
    /\ proc' = [proc EXCEPT ![p].pc = "u_write2",
                            ![p].newinst =
                                run_update_content(proc[p].inst,
                                                   query_update(avail, "EFI"),
                                                   query_update(avail, "EFI"))]
    /\ UNCHANGED <<stateFile, lock, avail, mpExists, call, grub2dir, mnt, esp, grub, bootloader, budget>>

\* --------------------------------------------------- adopt_and_update()
\* variant: the adopted component replaces the installed map
AdoptFinalState_alone(state, name, inst, with_static_config) ==
    [state EXCEPT !.installed = [c \in Components |-> IF c = name THEN inst ELSE NoInst],
                  !.static_configs = @ \/ with_static_config]

\* `state.installed.insert(name, inst)` and, with static configs requested and
\* none recorded yet, `state.static_configs = Some(meta)`
AdoptFinalState(state, name, inst, with_static_config) ==
    [state EXCEPT !.installed[name] = inst,
                  !.static_configs = @ \/ with_static_config]

\* adopt_and_update(), up to the lock
AdoptLoad(p, name, with_static_config) ==
    /\ CanStart(p)
    /\ CountOp
    /\ UNCHANGED <<stateFile, lock, avail, mpExists, call, grub2dir, mnt, esp, grub, bootloader>>
    /\ LET state == unwrap_or_default(load_from_disk(stateFile))
           update == query_update(avail, name)
           r0 == [Started("adopt", name) EXCEPT
                     !.with_static_config = with_static_config,
                     !.loaded = load_from_disk(stateFile)]
       IN IF state.installed[name].meta # 0
          THEN Leave(p, r0, Err("already_installed", r0, stateFile))
          ELSE \E writable \in BOOLEAN :
                 IF ~writable
                 THEN Leave(p, r0, Err("ensure_writable_boot", r0, stateFile))
                 ELSE IF update = 0
                 THEN Leave(p, r0, Err("no_update", r0, stateFile))
                 ELSE proc' = [proc EXCEPT ![p] =
                         [r0 EXCEPT !.pc = "a_lock", !.update = update, !.state = state]]

\* SavedState::acquire_write_lock, then into component.adopt_update
AdoptLock(p) ==
    /\ proc[p].pc = "a_lock"
    /\ lock = NoProc
    /\ lock' = p
    /\ proc' = [proc EXCEPT ![p].pc = "a_query"]
    /\ UNCHANGED <<stateFile, avail, mpExists, call, grub2dir, mnt, esp, grub, bootloader, budget>>

\* Bios::adopt_update / Efi::adopt_update before the loop: query_adopt says
\* whether the component can be adopted (None: Ok(None), nothing adopted)
AdoptQuery(p) ==
    /\ proc[p].pc = "a_query"
    /\ UNCHANGED <<stateFile, avail, mpExists, call, grub2dir, mnt, esp, grub, bootloader, budget>>
    /\ \E adoptable \in BOOLEAN :
         IF adoptable
         THEN /\ proc' = [proc EXCEPT ![p].pc =
                            IF proc[p].name = "BIOS" THEN "b_disk" ELSE "e_mount",
                                      ![p].i = 1]
              /\ UNCHANGED lock
         ELSE /\ Leave(p, proc[p], Result("Skipped", "return", 0, 0, proc[p].update,
                                         status_component(stateFile, avail, proc[p].name)))
              /\ Unlock(p)

\* Bios::adopt_update after the loop: the static-config migration when asked
\* for and sysroot.bootloader is unset, then InstalledContent { meta: update,
\* filetree: None, adopted_from: Some(meta.version) }
BiosAdoptDone(p) ==
    /\ proc[p].pc = "b_disk"
    /\ proc[p].op = "adopt"
    /\ proc[p].i > NDisks
    /\ UNCHANGED <<stateFile, avail, mpExists, call, grub2dir, mnt, esp, grub, bootloader, budget>>
    /\ \E migrated \in BOOLEAN :
         IF migrated \/ ~(proc[p].with_static_config /\ bootloader = "unset")
         THEN /\ proc' = [proc EXCEPT ![p].pc = "a_write",
                                      ![p].newinst =
                                          InstalledContent(proc[p].update, 0, AdoptVersion)]
              /\ UNCHANGED lock
         ELSE /\ Leave(p, proc[p], Err("migrate_static_grub_config", proc[p], stateFile))
              /\ Unlock(p)

\* Efi::adopt_update after the loop: InstalledContent { meta: updatemeta,
\* filetree: Some(updatef), adopted_from: Some(meta.version) }
EfiAdoptDone(p) ==
    /\ proc[p].pc = "e_mount"
    /\ proc[p].op = "adopt"
    /\ proc[p].i > Len(esp_devices)
    /\ proc' = [proc EXCEPT ![p].pc = "a_write",
                            ![p].newinst =
                                InstalledContent(proc[p].update,
                                                 query_update(avail, "EFI"), AdoptVersion)]
    /\ UNCHANGED <<stateFile, lock, avail, mpExists, call, grub2dir, mnt, esp, grub, bootloader, budget>>

\* adopt_and_update() after adopt_update returned Some(inst)
AdoptWrite(p) ==
    /\ proc[p].pc = "a_write"
    /\ UNCHANGED <<avail, mpExists, call, grub2dir, mnt, esp, grub, budget>>
    /\ Unlock(p)
    /\ LET r == proc[p]
           setting == r.with_static_config /\ ~r.state.static_configs
           file == update_state(
                      AdoptFinalState(r.state, r.name, r.newinst, r.with_static_config))
       IN \E outcome \in {"ok", "fail_set_bootloader", "fail_update_state"} :
            /\ outcome = "fail_set_bootloader" => setting
            /\ bootloader' = IF setting /\ outcome # "fail_set_bootloader"
                             THEN "none" ELSE bootloader
            /\ IF outcome = "ok"
               THEN /\ stateFile' = file
                    /\ Leave(p, r, Result("Adopted", "return", 0, 0, r.update,
                                          status_component(file, avail, r.name)))
               ELSE /\ UNCHANGED stateFile
                    /\ Leave(p, r, Err(outcome, r, stateFile))

\* ------------------------------------------------------------ install()
\* the target sets of the model: all components, one component, an unknown name
InstallTargets == {<<"BIOS", "EFI">>, <<"BIOS">>, <<"EFI">>, <<"bogus">>, <<"EFI", "bogus">>}

\* variant: install goes on whatever the check says
install_reinstall_check_skipped(file) == TRUE

\* `SavedState::ensure_not_present(dest_root)?` at the head of install()
install_reinstall_check(file) == ensure_not_present(file)

\* install(), before the loop over the components
InstallCheck(p, device, targets, configs) ==
    /\ CanStart(p)
    /\ CountOp
    /\ UNCHANGED <<stateFile, lock, avail, mpExists, call, grub2dir, mnt, esp, grub, bootloader>>
    /\ LET r0 == [Started("install", "EFI") EXCEPT
                     !.device = device, !.targets = targets,
                     !.with_static_config = configs]
       IN IF ~install_reinstall_check(stateFile)
          THEN Leave(p, r0, Err("ensure_not_present", r0, stateFile))
          ELSE IF \E k \in 1..Len(targets) : targets[k] \notin Components
          THEN Leave(p, r0, Err("unknown_component", r0, stateFile))
          ELSE proc' = [proc EXCEPT ![p] = [r0 EXCEPT !.pc = "i_comp", !.i = 1]]

\* variant: BIOS is skipped whatever the device
install_skips_bios(c, device, meta) == c = "BIOS" \/ meta = 0

\* the two `continue`s at the head of the loop body: BIOS without a target
\* device, and a component whose query_update is None
install_skips(c, device, meta) == (c = "BIOS" /\ device = 0) \/ meta = 0

\* one iteration of the loop over target_components
InstallComponent(p) ==
    /\ proc[p].pc = "i_comp"
    /\ proc[p].i <= Len(proc[p].targets)
    /\ UNCHANGED <<stateFile, avail, mpExists, call, grub2dir, bootloader, budget>>
    /\ LET r == proc[p]
           c == r.targets[r.i]
           meta == query_update(avail, c)
           next == [r EXCEPT !.i = r.i + 1]
           found == get_mounted_esp(mpExists, mnt)
           target == mount_esp_device(mpExists)
       IN IF install_skips(c, r.device, meta)
          THEN /\ proc' = [proc EXCEPT ![p] = next]
               /\ UNCHANGED <<lock, mnt, esp, grub>>
          ELSE IF c = "BIOS"
          THEN \* Bios::install: run_grub_install(dest_root, device)
               \E ok \in BOOLEAN :
                 IF ok
                 THEN /\ grub' = [grub EXCEPT ![r.device] = meta]
                      /\ proc' = [proc EXCEPT ![p] =
                            [Log(next, Event("grub", r.device, 0, TRUE)) EXCEPT
                                !.state.installed[c] = InstalledContent(meta, 0, 0)]]
                      /\ UNCHANGED <<lock, mnt, esp>>
                 ELSE /\ UNCHANGED <<grub, esp>>
                      /\ EfiErrorExit(p, Log(r, Event("grub", r.device, 0, FALSE)),
                                      "run_grub_install")
          ELSE \* Efi::install: reuse a mounted ESP or mount the device's, copy
               /\ UNCHANGED grub
               /\ \E outcome \in {"ok", "fail_mount", "fail_copy"} :
                    LET mp == IF found # 0 THEN found ELSE target
                        fs == IF found # 0 THEN mnt[found] ELSE r.device
                        mounted == IF found # 0
                                   THEN Log(r, Event("reuse", fs, mp, TRUE))
                                   ELSE Log(r, Event("mount", fs, mp, TRUE))
                        copied == Log(mounted, Event("cp", fs, mp, outcome = "ok"))
                    IN /\ (found = 0 /\ (r.device = 0 \/ target = 0)) => outcome = "fail_mount"
                       /\ IF outcome = "fail_mount"
                          THEN /\ UNCHANGED esp
                               /\ EfiErrorExit(p, r, "mount")
                          ELSE IF outcome = "fail_copy"
                          THEN /\ esp' = [esp EXCEPT ![fs] = 0]
                               /\ EfiErrorExitFrom(p, [copied EXCEPT !.mountpoint = mp],
                                                   "cp", [mnt EXCEPT ![mp] = fs])
                          ELSE /\ esp' = [esp EXCEPT ![fs] = meta]
                               /\ mnt' = [mnt EXCEPT ![mp] = fs]
                               /\ proc' = [proc EXCEPT ![p] =
                                     [copied EXCEPT
                                         !.i = r.i + 1, !.mountpoint = mp,
                                         !.state.installed[c] =
                                             InstalledContent(meta, meta, 0)]]
                               /\ UNCHANGED lock

\* install() after the loop: static configs, update_state through the unlocked
\* guard, and the components are dropped on return
InstallWrite(p) ==
    /\ proc[p].pc = "i_comp"
    /\ proc[p].i > Len(proc[p].targets)
    /\ UNCHANGED <<lock, avail, mpExists, call, grub2dir, esp, grub, bootloader, budget>>
    /\ LET r == proc[p]
           state == [r.state EXCEPT !.static_configs = r.with_static_config]
           file == update_state(state)
       IN \E ok \in BOOLEAN, dropok \in BOOLEAN :
            /\ r.mountpoint = 0 => dropok
            /\ mnt' = IF r.mountpoint # 0 /\ dropok
                      THEN [mnt EXCEPT ![r.mountpoint] = 0] ELSE mnt
            /\ stateFile' = IF ok THEN file ELSE stateFile
            /\ LET logged == IF r.mountpoint = 0 THEN r
                             ELSE Log(r, Event("drop_umount", mnt[r.mountpoint],
                                               r.mountpoint, dropok))
               IN Leave(p, logged,
                        IF ok
                        THEN Result("Installed", "return", 0, 0, 0,
                                    status_component(file, avail, r.name))
                        ELSE Err("update_state", r, stateFile))

\* ---------------------------------------------------------- environment
\* the invocation is killed (SIGKILL, power loss of the process): no destructor
\* runs, the kernel releases its file lock, mounts stay as they are
Crash(p) ==
    /\ ~Idle(p)
    /\ budget.crashes > 0
    /\ budget' = [budget EXCEPT !.crashes = @ - 1]
    /\ Unlock(p)
    /\ Leave(p, proc[p],
             Result("crashed", proc[p].pc, proc[p].inst.meta, proc[p].interrupted,
                    proc[p].update, status_component(stateFile, avail, proc[p].name)))
    /\ UNCHANGED <<stateFile, avail, mpExists, call, grub2dir, mnt, esp, grub, bootloader>>

\* a new OS image is deployed and booted: the update metadata of one component
\* changes, or is not shipped any more (0: query_update returns None); the
\* files live in the booted image, so no invocation is running
NewImage(c, m) ==
    /\ \A p \in Procs : Idle(p)
    /\ budget.images > 0
    /\ budget.ops > 0
    /\ m # avail[c]
    /\ budget' = [budget EXCEPT !.images = @ - 1]
    /\ avail' = [avail EXCEPT ![c] = m]
    /\ UNCHANGED <<stateFile, lock, mpExists, call, grub2dir, mnt, esp, grub, bootloader, proc>>

\* ----------------------------------------------------------------- Init
\* The state file found on disk at the start: absent, or written by an earlier
\* run of the tool: components installed at version 1, and possibly a pending
\* entry (version 2) for one installed component.
InstalledAt(comps, m) ==
    [c \in Components |->
        IF c \in comps THEN InstalledContent(m, IF c = "EFI" THEN m ELSE 0, 0)
        ELSE NoInst]

FileWith(comps, pend) ==
    update_state([installed |-> InstalledAt(comps, 1),
                  pending_some |-> pend # {},
                  pending |-> [c \in Components |-> IF c \in pend THEN 2 ELSE 0],
                  static_configs |-> FALSE])

NoMounts == [m \in MountIdx |-> 0]
AllExist == [m \in MountIdx |-> TRUE]

InitWith(files, exists, tables, bud) ==
    /\ stateFile \in files
    /\ lock = NoProc
    /\ avail = [c \in Components |-> 2]
    /\ mpExists \in exists
    /\ mnt \in {t \in tables : \A m \in MountIdx : t[m] # 0 => mpExists[m]}
    /\ esp = [d \in 1..NDisks |-> stateFile.saved.installed["EFI"].filetree]
    /\ grub = [d \in 1..NDisks |-> stateFile.saved.installed["BIOS"].meta]
    /\ bootloader = "unset"
    /\ grub2dir = StaticGrub2Dir
    /\ proc = [p \in Procs |-> ProcInit]
    /\ budget = bud

\* operations one after another, with crashes and image changes
Init ==
    /\ call = NoCall
    /\ InitWith({NoFile, FileWith({"EFI"}, {}), FileWith({"EFI"}, {"EFI"}),
              FileWith({"BIOS", "EFI"}, {}), FileWith({"BIOS", "EFI"}, {"BIOS"})},
             {AllExist}, {NoMounts},
             [ops |-> MaxOps, par |-> 1, crashes |-> MaxCrashes, images |-> MaxImages])

\* invocations running at the same time
InitRace ==
    /\ call = NoCall
    /\ InitWith({NoFile, FileWith({"BIOS", "EFI"}, {})},
             {AllExist}, {NoMounts},
             [ops |-> MaxPar, par |-> MaxPar, crashes |-> 0, images |-> 0])

\* one operation, over every layout of the well-known mount points: none or
\* one of them holding an ESP that was mounted before the run
InitEsp ==
    /\ call = NoCall
    /\ InitWith({NoFile, FileWith({"EFI"}, {}), FileWith({"BIOS"}, {})},
             {AllExist, [m \in MountIdx |-> m # 1]},
             {t \in [MountIdx -> 0..NDisks] : Cardinality({m \in MountIdx : t[m] # 0}) <= 1},
             [ops |-> MaxEspOps, par |-> 1, crashes |-> 1, images |-> 1])

\* the steps of the program
Operations ==
    \/ \E p \in Procs, name \in Components : UpdateLoad(p, name)
    \/ \E p \in Procs : UpdateLock(p)
    \/ \E p \in Procs : UpdateWritePending(p)
    \/ \E p \in Procs : UpdateWriteFinal(p)
    \/ \E p \in Procs : BiosGrubInstall(p)
    \/ \E p \in Procs : BiosRunUpdateDone(p)
    \/ \E p \in Procs : EfiRunUpdateStart(p)
    \/ \E p \in Procs : EfiEnsureMounted(p)
    \/ \E p \in Procs : EfiApply(p)
    \/ \E p \in Procs : EfiUnmount(p)
    \/ \E p \in Procs : EfiRunUpdateDone(p)
    \/ \E p \in Procs, name \in Components, wsc \in BOOLEAN : AdoptLoad(p, name, wsc)
    \/ \E p \in Procs : AdoptLock(p)
    \/ \E p \in Procs : AdoptQuery(p)
    \/ \E p \in Procs : BiosAdoptDone(p)
    \/ \E p \in Procs : EfiAdoptDone(p)
    \/ \E p \in Procs : AdoptWrite(p)
    \/ \E p \in Procs, device \in 0..NDisks, targets \in InstallTargets, configs \in BOOLEAN :
          InstallCheck(p, device, targets, configs)
    \/ \E p \in Procs : InstallComponent(p)
    \/ \E p \in Procs : InstallWrite(p)

Next ==
    \/ Operations
    \/ \E p \in Procs : Crash(p)
    \/ \E c \in Components, m \in OptMeta : NewImage(c, m)

Spec == Init /\ [][Next]_vars
SpecRace == InitRace /\ [][Operations]_vars
SpecEsp == InitEsp /\ [][Next]_vars

\* ================================================================ claims
\* positions of update() after its first update_state and before its last
AfterFirstWrite == {"b_disk", "e_start", "e_mount", "e_apply", "e_umount", "u_write2"}

\* errors returned out of component.run_update
RunUpdateErrors ==
    {"run_grub_install", "no_filetree", "ensure_writable_mount", "no_mount_point",
     "mount", "fail_open", "fail_apply", "fail_freeze", "umount"}

\* C1: an update killed between its first and its last SavedState write leaves
\* a state for which status() reports `interrupted` = the version that was being
\* applied and `installed` = the pre-update version.
C1_CrashReportsInterrupted ==
    \A p \in Procs :
        (proc[p].op = "update" /\ proc[p].res.kind = "crashed"
            /\ proc[p].res.at \in AfterFirstWrite)
        => /\ proc[p].res.status.interrupted = proc[p].res.new
           /\ proc[p].res.status.installed = proc[p].res.previous

\* C2: when update(name) returns Updated, the state file it has just written
\* has installed[name].meta = the applied update and no pending entry for name.
C2_UpdatedIsPersisted ==
    [][\A p \in Procs :
          (proc[p].pc = "u_write2" /\ proc'[p].res.kind = "Updated")
          => /\ stateFile'.present
             /\ stateFile'.saved.installed[proc[p].name].meta = proc[p].update
             /\ proc[p].update = query_update(avail, proc[p].name)
             /\ proc[p].name \notin PendingKeys(stateFile'.saved)]_vars

C2_Witness ==
    \E p \in Procs :
        /\ proc[p].res.kind = "Updated"
        /\ stateFile.saved.installed[proc[p].name].meta = proc[p].res.new
        /\ proc[p].res.new # proc[p].res.previous

\* C3: when run_update fails, update(name) returns an error and the persisted
\* state still has installed[name] at the pre-update version and a pending
\* entry for the attempted version.
C3_FailedRunUpdateKeepsPending ==
    \A p \in Procs :
        (proc[p].op = "update" /\ proc[p].res.kind = "error"
            /\ proc[p].res.at \in RunUpdateErrors)
        => /\ proc[p].res.status.installed = proc[p].res.previous
           /\ proc[p].res.status.interrupted = proc[p].res.new

C6_LoadedUnderLock ==
    [][\A p \in Procs :
          (lock # p /\ lock' = p) => proc'[p].loaded = load_from_disk(stateFile)]_vars

\* C7: install started while a state file exists fails at once: it returns an
\* error, runs no component install and leaves the state file, the disks, the
\* ESPs and the mounts as they were.
C7_InstallRefusesExistingState ==
    [][\A p \in Procs :
          (Idle(p) /\ proc'[p] # proc[p] /\ proc'[p].op = "install" /\ stateFile.present)
          => /\ proc'[p].res.kind = "error"
             /\ proc'[p].res.at = "ensure_not_present"
             /\ proc'[p].pc = "idle"
             /\ proc'[p].log = <<>>
             /\ UNCHANGED <<stateFile, grub, esp, mnt, bootloader>>]_vars

C7_Witness ==
    \E p \in Procs :
        /\ proc[p].op = "install"
        /\ proc[p].res.kind = "error" /\ proc[p].res.at = "ensure_not_present"
        /\ stateFile.present

C9_GrubPerDiskInOrder ==
    \A p \in Procs :
        (proc[p].name = "BIOS" /\ proc[p].op \in {"update", "adopt"})
        => LET log == proc[p].log
               r == proc[p].res
               version == IF Idle(p) THEN r.new ELSE proc[p].update
           IN /\ Len(log) <= NDisks
              /\ \A k \in 1..Len(log) :
                    /\ log[k].ev = "grub"
                    /\ log[k].dev = Devices[k]
                    /\ k < Len(log) => log[k].ok
                    /\ log[k].ok => grub[log[k].dev] = version
              /\ r.kind \in {"Updated", "Adopted"}
                    => Len(log) = NDisks /\ log[NDisks].ok
              /\ (Len(log) > 0 /\ ~log[Len(log)].ok)
                    => r.kind = "error" /\ r.at = "run_grub_install"

C9_Witness ==
    \E p \in Procs :
        /\ proc[p].name = "BIOS" /\ proc[p].op \in {"update", "adopt"}
        /\ proc[p].res.kind = "error" /\ proc[p].res.at = "run_grub_install"
        /\ Len(proc[p].log) = NDisks
        /\ proc[p].log[1].ok
        /\ grub[Devices[1]] = proc[p].res.new
        /\ grub[Devices[NDisks]] # proc[p].res.new

\* C10: a mount point the EFI component found mounted and reused is still
\* mounted afterwards: it unmounts only what it mounted itself.
C10_ReusedMountStays ==
    \A p \in Procs :
        \A k \in 1..Len(proc[p].log) :
            proc[p].log[k].ev = "reuse" => mnt[proc[p].log[k].mp] = proc[p].log[k].dev

\* ================================================ library calls on their own
\* The program state while a library function is checked on its own: no state
\* file, nothing mounted, no invocation running or allowed to start.
Quiet ==
    InitWith({NoFile}, {AllExist}, {NoMounts},
             [ops |-> 0, par |-> 0, crashes |-> 0, images |-> 0])

ProgramVars ==
    <<stateFile, lock, avail, mpExists, mnt, esp, grub, bootloader, proc, budget, grub2dir>>

\* ------------------------------------------------- fsfreeze_thaw_cycle(fd)
\* outcomes of a system call: "Ok" or an errno
Errnos == {"EPERM", "EOPNOTSUPP", "EBUSY", "EINVAL", "EIO", "ENOTTY"}
SysResults == {"Ok"} \cup Errnos

\* variant: only an unsupported filesystem is tolerated
freeze_match_strict(freeze) ==
    IF freeze = "EOPNOTSUPP" THEN "return_ok"
    ELSE IF freeze = "Ok" THEN "thaw"
    ELSE "return_err"

\* the `match freeze` of fsfreeze_thaw_cycle: Errno::PERM and Errno::NOTSUP
\* (the value of EOPNOTSUPP on Linux) are ignored, Ok goes on to FITHAW,
\* anything else is returned
freeze_match(freeze) ==
    IF freeze = "EPERM" THEN "return_ok"
    ELSE IF freeze = "EOPNOTSUPP" THEN "return_ok"
    ELSE IF freeze = "Ok" THEN "thaw"
    ELSE "return_err"

\* the environment of one call: what each system call will answer
FreezeCalls ==
    [pc : {"syncfs"}, syncfs : {"Ok", "EIO", "EBADF"}, guard : {"Ok", "EINVAL"},
     freeze : SysResults, thaw : {"Ok", "EINVAL", "EIO"},
     issued : {<<>>}, result : {"none"}, frozen : {FALSE}, sigterm : {"pending"}]

InitFreeze == Quiet /\ call \in FreezeCalls

\* `rustix::fs::syncfs(&fd)?`
FreezeSyncfs ==
    /\ call.pc = "syncfs"
    /\ call' = [call EXCEPT !.issued = Append(@, "syncfs"),
                            !.pc = IF call.syncfs = "Ok" THEN "guard" ELSE "done",
                            !.result = IF call.syncfs = "Ok" THEN @ ELSE call.syncfs]
    /\ UNCHANGED ProgramVars

\* `SignalTerminationGuard::new()?`
FreezeGuard ==
    /\ call.pc = "guard"
    /\ call' = [call EXCEPT !.issued = Append(@, "sigterm_guard"),
                            !.pc = IF call.guard = "Ok" THEN "freeze" ELSE "done",
                            !.result = IF call.guard = "Ok" THEN @ ELSE call.guard]
    /\ UNCHANGED ProgramVars

\* `ioctl_fifreeze(&fd)` and the match on its result
FreezeIoctl ==
    /\ call.pc = "freeze"
    /\ LET m == freeze_match(call.freeze)
       IN call' = [call EXCEPT !.issued = Append(@, "FIFREEZE"),
                               !.frozen = call.freeze = "Ok",
                               !.pc = IF m = "thaw" THEN "thaw" ELSE "done",
                               !.result = IF m = "return_ok" THEN "Ok"
                                          ELSE IF m = "return_err" THEN call.freeze
                                          ELSE @]
    /\ UNCHANGED ProgramVars

\* `Ok(ioctl_fithaw(fd)?)`
FreezeThaw ==
    /\ call.pc = "thaw"
    /\ call' = [call EXCEPT !.issued = Append(@, "FITHAW"),
                            !.frozen = call.thaw # "Ok",
                            !.pc = "done", !.result = call.thaw]
    /\ UNCHANGED ProgramVars

NextFreeze == FreezeSyncfs \/ FreezeGuard \/ FreezeIoctl \/ FreezeThaw

SpecFreeze == InitFreeze /\ [][NextFreeze]_vars

Issued(c, what) == \E k \in 1..Len(c.issued) : c.issued[k] = what

\* C11: fsfreeze_thaw_cycle returns Ok when FIFREEZE fails with EOPNOTSUPP or
\* EPERM, and then issues no FITHAW; it returns the error when FIFREEZE fails
\* with any other errno, and when syncfs fails.
C11_FreezeTolerance ==
    (call.pc = "done")
    => /\ (Issued(call, "FIFREEZE") /\ call.freeze \in {"EOPNOTSUPP", "EPERM"})
             => (call.result = "Ok" /\ ~Issued(call, "FITHAW"))
       /\ (Issued(call, "FIFREEZE") /\ call.freeze \in Errnos \ {"EOPNOTSUPP", "EPERM"})
             => (call.result = call.freeze /\ ~Issued(call, "FITHAW"))
       /\ (call.syncfs # "Ok")
             => (call.result = call.syncfs /\ call.issued = <<"syncfs">>)

C11_Witness ==
    /\ call.pc = "done"
    /\ call.freeze = "EPERM"
    /\ call.issued = <<"syncfs", "sigterm_guard", "FIFREEZE">>
    /\ call.result = "Ok"

\* --------------------------------------- compare_package_versions(a, b)
\* longest version string of the model, in tokens
MaxTokens == 2

\* std::env::consts::ARCH of the build
ARCH == "x86_64"

\* The EVR texts of the model in UAPI version order, e.g. 1 = "1:2.12-28.fc42",
\* 2 = "1:2.12-29.fc42"
EvrTexts == <<"1:2.12-28.fc42", "1:2.12-29.fc42">>

\* A token of a version string is the text
\*   parts[1]-...-parts[n]-EvrTexts[evr]     (arch = ""), or
\*   parts[1]-...-parts[n]-EvrTexts[evr].ARCH (arch = ARCH)
Tok(parts, evr, arch) == [parts |-> parts, evr |-> evr, arch |-> arch]

\* the tokens of the model: grub2 and shim in name-EVR form at two versions,
\* grub2-efi-x64 and shim-x64 in NEVRA form, test-payload in both forms
Tokens ==
    {Tok(<<"grub2">>, 1, ""), Tok(<<"grub2">>, 2, ""),
     Tok(<<"grub2", "efi", "x64">>, 1, ARCH),
     Tok(<<"shim">>, 1, ""), Tok(<<"shim">>, 2, ""),
     Tok(<<"shim", "x64">>, 1, ARCH),
     Tok(<<"test", "payload">>, 1, ARCH), Tok(<<"test", "payload">>, 1, "")}

\* Module names the tokens can parse to, in string order ('-' sorts before
\* letters and digits); a name is the sequence of its '-'-separated words
NameOrder == << <<"grub2">>, <<"shim">>, <<"test">>, <<"test", "payload">> >>
NameId(name) == CHOOSE n \in 1..Len(NameOrder) : NameOrder[n] = name

\* What can stand before the EVR text in an rpm_evr, in UAPI version order: a
\* text that starts with a letter sorts below one that starts with a digit
PreOrder == << <<"efi", "x64">>, <<"payload">>, <<"x64">>, <<>> >>
PreId(pre) == CHOOSE n \in 1..Len(PreOrder) : PreOrder[n] = pre

\* rank of the rpm_evr text pre[1]-...-pre[n]-EvrTexts[evr] in UAPI version order
EvrId(pre, evr) == (PreId(pre) - 1) * Len(EvrTexts) + evr

\* `["grub2", "shim"].iter().any(|p| name_str.starts_with(p))`; the first words
\* of the model's names that start with one of these are the two themselves
KnownPrefix(name) == name[1] \in {"grub2", "shim"}

\* parse_evr
parse_evr(pkg) ==
    IF pkg.arch # ARCH
    THEN \* pkg.split_once('-'): the first word, and all the rest as rpm_evr
         Mod(NameId(<<pkg.parts[1]>>), EvrId(Tail(pkg.parts), pkg.evr))
    ELSE \* rpm::Nevra::parse; the name is cut at its first '-' for known prefixes
         Mod(NameId(IF KnownPrefix(pkg.parts) THEN <<pkg.parts[1]>> ELSE pkg.parts),
             EvrId(<<>>, pkg.evr))

\* pkgs.sort_unstable(): insertion of m into a sorted sequence
RECURSIVE InsertSorted(_, _)
InsertSorted(s, m) ==
    IF s = <<>> THEN <<m>>
    ELSE IF ModuleCmp(m, s[1]) = "Greater" THEN <<s[1]>> \o InsertSorted(Tail(s), m)
    ELSE <<m>> \o s

RECURSIVE SortModules(_)
SortModules(s) ==
    IF s = <<>> THEN <<>> ELSE InsertSorted(SortModules(Tail(s)), s[1])

\* pkgs.dedup(): consecutive equal elements collapse
RECURSIVE Dedup(_)
Dedup(s) ==
    IF Len(s) <= 1 THEN s
    ELSE IF s[1] = s[2] THEN Dedup(Tail(s))
    ELSE <<s[1]>> \o Dedup(Tail(s))

\* variant: the parsed list is compared in input order
parse_evr_vec_unsorted(input) == Dedup([k \in 1..Len(input) |-> parse_evr(input[k])])

\* parse_evr_vec: split at ',', parse, sort, dedup
parse_evr_vec(input) ==
    Dedup(SortModules([k \in 1..Len(input) |-> parse_evr(input[k])]))

\* compare_package_versions, with its fast path for equal strings
compare_package_versions(a, b) ==
    IF a = b THEN "Equal"
    ELSE compare_package_slices(parse_evr_vec(a), parse_evr_vec(b))

\* version strings: 1..MaxTokens tokens joined by ','
VersionStrings == UNION {[1..n -> Tokens] : n \in 1..MaxTokens}

InitOracle ==
    /\ Quiet
    /\ call \in [pc : {"compare"}, a : VersionStrings, b : VersionStrings,
                 ab : {"none"}, ba : {"none"}]

\* compare_package_versions(a, b) and compare_package_versions(b, a)
OracleCompare ==
    /\ call.pc = "compare"
    /\ call' = [call EXCEPT !.pc = "done",
                            !.ab = compare_package_versions(call.a, call.b),
                            !.ba = compare_package_versions(call.b, call.a)]
    /\ UNCHANGED ProgramVars

SpecOracle == InitOracle /\ [][OracleCompare]_vars

\* C12: when b is a with one more token appended, compare_package_versions(a, b)
\* is Less and compare_package_versions(b, a) is Greater, whatever the name of
\* the extra token.
C12_OracleAdditivity ==
    (call.pc = "done" /\ Len(call.b) = Len(call.a) + 1
        /\ SubSeq(call.b, 1, Len(call.a)) = call.a)
    => (call.ab = "Less" /\ call.ba = "Greater")

ModuleNames(s) == {s[k].name : k \in 1..Len(s)}

\* C13: compare_package_versions(a, b) is Less whenever b has a token for a
\* package name that does not occur in a.
C13_NewPackageIsUpgrade ==
    (call.pc = "done"
        /\ ModuleNames(parse_evr_vec(call.b)) \ ModuleNames(parse_evr_vec(call.a)) # {})
    => call.ab = "Less"

\* the strings obtained by permuting the tokens of b
PermutationsOf(b) ==
    {[k \in 1..Len(b) |-> b[f[k]]] :
        f \in {g \in [1..Len(b) -> 1..Len(b)] : \A i, j \in 1..Len(b) : g[i] = g[j] => i = j}}

\* C14: if compare_package_versions(a, b) is Less, it is Less for a and every
\* string made of b's tokens in another order.
C14_OraclePermutation ==
    (call.pc = "done" /\ call.ab = "Less")
    => \A c \in PermutationsOf(call.b) : compare_package_versions(call.a, c) = "Less"

C14_Witness ==
    /\ call.pc = "done" /\ call.ab = "Less"
    /\ Len(call.b) = MaxTokens
    /\ \E c \in PermutationsOf(call.b) :
          /\ c # call.b
          /\ [k \in 1..Len(c) |-> parse_evr(c[k])] # parse_evr_vec(c)
          /\ compare_package_versions(call.a, c) = "Less"

\* C15: compare_package_versions(a, a) is Equal, and when
\* compare_package_versions(a, b) is Greater, compare_package_versions(b, a) is Less.
C15_OracleConverse ==
    (call.pc = "done")
    => /\ call.a = call.b => call.ab = "Equal"
       /\ call.ab = "Greater" => call.ba = "Less"

\* a Greater result that rests on a newer package, the lists being equally long
C15_Witness ==
    /\ call.pc = "done"
    /\ call.ab = "Greater" /\ call.ba = "Less"
    /\ Len(parse_evr_vec(call.a)) = Len(parse_evr_vec(call.b))
    /\ Len(call.a) = MaxTokens

\* the name-EVR form of a NEVRA token: the name as the oracle names the
\* package, the same EVR, no architecture
NameEvrForm(t) ==
    Tok(IF KnownPrefix(t.parts) THEN <<t.parts[1]>> ELSE t.parts, t.evr, "")

\* C16: parse_evr maps a token that ends with the host architecture to
\* (name, EVR), the name cut at its first '-' exactly when it starts with grub2
\* or shim; and a string of NEVRA tokens compares Equal with the string of the
\* name-EVR forms of the same packages and versions.
C16_NevraParseStability ==
    (call.pc = "done" /\ \A k \in 1..Len(call.a) : call.a[k].arch = ARCH)
    => /\ \A k \in 1..Len(call.a) :
             LET t == call.a[k]
             IN parse_evr(t) =
                  Mod(NameId(IF t.parts[1] \in {"grub2", "shim"}
                             THEN <<t.parts[1]>> ELSE t.parts),
                      EvrId(<<>>, t.evr))
       /\ call.b = [k \in 1..Len(call.a) |-> NameEvrForm(call.a[k])]
             => (call.ab = "Equal" /\ call.ba = "Equal")

\* --------------------------------------------------------- validate(name)
\* the files of the EFI payload, in path order
FilePaths == <<"EFI/fedora/grubx64.efi", "EFI/fedora/shimx64.efi">>
PathIdx == 1..Len(FilePaths)

\* FileTree of content id: the digest of each path; the payload of metadata id
\* holds grub and shim at the versions MetaVersions[id] names
FileTreeOf(id) == [k \in PathIdx |-> MetaVersions[id][k].rpm_evr]

\* the EFI directory of an ESP holding content c: digest of each path, 0 = no
\* such file; content 0 (not written by bootupd) has an unknown grub, no shim
\* and files of its own
DirOf(c) ==
    IF c = 0 THEN [k \in PathIdx |-> IF k = 1 THEN AdoptVersion ELSE 0]
    ELSE FileTreeOf(c)

\* FileTree::relative_diff_to(dir): only the paths of the tree are looked at,
\* files that are only on disk are ignored
relative_diff_to(tree, dir) ==
    LET Changed(k) == dir[k] # 0 /\ dir[k] # tree[k]
        Removed(k) == dir[k] = 0
    IN [additions |-> <<>>,
        changes |-> SelectSeq([k \in PathIdx |-> k], Changed),
        removals |-> SelectSeq([k \in PathIdx |-> k], Removed)]

\* the strings Efi::validate pushes for one diff: changes, then removals
ValidateErrs(diff) ==
    [k \in 1..Len(diff.changes) |-> <<"Changed", FilePaths[diff.changes[k]]>>]
    \o [k \in 1..Len(diff.removals) |-> <<"Removed", FilePaths[diff.removals[k]]>>]

\* validate(name) for the EFI component, up to the loop of Efi::validate
ValidateStart(p) ==
    /\ CanStart(p)
    /\ CountOp
    /\ UNCHANGED <<stateFile, lock, avail, mpExists, call, grub2dir, mnt, esp, grub, bootloader>>
    /\ LET state == unwrap_or_default(load_from_disk(stateFile))
           inst == state.installed["EFI"]
           r0 == [Started("validate", "EFI") EXCEPT
                     !.inst = inst, !.loaded = load_from_disk(stateFile)]
       IN IF inst.meta = 0
          THEN Leave(p, r0, Err("not_installed", r0, stateFile))
          ELSE \E booted \in BOOLEAN, found \in BOOLEAN :
                 LET r1 == Log(Log(r0, Event("is_efi_booted", 0, 0, booted)),
                               Event("find_colocated_esps", 0, 0, found))
                 IN IF ~booted /\ ~found
                    THEN Leave(p, r1, Result("Skip", "return", inst.meta, 0, 0,
                                             status_component(stateFile, avail, "EFI")))
                    ELSE IF inst.filetree = 0
                    THEN Leave(p, r1, Err("no_filetree", r1, stateFile))
                    ELSE IF ~found
                    THEN Leave(p, r1, Result("Valid", "return", inst.meta, 0, 0,
                                             status_component(stateFile, avail, "EFI")))
                    ELSE proc' = [proc EXCEPT ![p] = [r1 EXCEPT !.pc = "e_mount", !.i = 1]]

\* the loop body of Efi::validate between mounting and unmounting
ValidateDiff(p) ==
    /\ proc[p].pc = "v_diff"
    /\ UNCHANGED <<stateFile, avail, mpExists, call, grub2dir, esp, grub, bootloader, budget>>
    /\ LET r == proc[p]
           fs == mnt[r.mountpoint]
       IN \E outcome \in {"ok", "fail_open", "fail_diff"} :
            /\ fs = 0 => outcome = "fail_open"
            /\ IF outcome = "ok"
               THEN LET diff == relative_diff_to(FileTreeOf(r.inst.filetree), DirOf(esp[fs]))
                    IN IF diff.additions # <<>>
                       THEN \* assert_eq!(diff.additions.len(), 0) panics
                            EfiErrorExit(p, r, "assert_additions")
                       ELSE /\ proc' = [proc EXCEPT ![p] =
                                  [Log(r, Event("diff", fs, r.mountpoint, TRUE)) EXCEPT
                                      !.errs = @ \o ValidateErrs(diff),
                                      !.pc = "e_umount"]]
                            /\ UNCHANGED <<lock, mnt>>
               ELSE EfiErrorExit(p, r, outcome)

\* Efi::validate after the loop
ValidateDone(p) ==
    /\ proc[p].pc = "e_mount"
    /\ proc[p].op = "validate"
    /\ proc[p].i > Len(esp_devices)
    /\ Leave(p, proc[p],
             Result(IF proc[p].errs # <<>> THEN "Errors" ELSE "Valid", "return",
                    proc[p].inst.meta, 0, 0, status_component(stateFile, avail, "EFI")))
    /\ UNCHANGED <<stateFile, lock, avail, mpExists, call, grub2dir, mnt, esp, grub, bootloader, budget>>

\* validate on a system whose ESPs hold any content, with none or one of them
\* mounted before the run
InitValidate ==
    /\ call = NoCall
    /\ stateFile \in {NoFile, FileWith({"EFI"}, {})}
    /\ lock = NoProc
    /\ avail = [c \in Components |-> 2]
    /\ mpExists \in {AllExist, [m \in MountIdx |-> m # 1]}
    /\ mnt \in {t \in [MountIdx -> 0..NDisks] :
                  /\ Cardinality({m \in MountIdx : t[m] # 0}) <= 1
                  /\ \A m \in MountIdx : t[m] # 0 => mpExists[m]}
    /\ esp \in [1..NDisks -> 0..2]
    /\ grub = [d \in 1..NDisks |-> 0]
    /\ bootloader = "unset"
    /\ grub2dir = StaticGrub2Dir
    /\ proc = [p \in Procs |-> ProcInit]
    /\ budget = [ops |-> MaxEspOps, par |-> 1, crashes |-> 0, images |-> 0]

NextValidate ==
    \/ \E p \in Procs : ValidateStart(p)
    \/ \E p \in Procs : EfiEnsureMounted(p)
    \/ \E p \in Procs : ValidateDiff(p)
    \/ \E p \in Procs : EfiUnmount(p)
    \/ \E p \in Procs : ValidateDone(p)

SpecValidate == InitValidate /\ [][NextValidate]_vars

\* what validate has to report: the changes and removals of every ESP, in order
RECURSIVE ExpectedErrs(_, _)
ExpectedErrs(tree, k) ==
    IF k > Len(esp_devices) THEN <<>>
    ELSE ValidateErrs(relative_diff_to(tree, DirOf(esp[esp_devices[k]])))
         \o ExpectedErrs(tree, k + 1)

\* C17: EFI validate returns Skip when there is no ESP and the system is not
\* EFI-booted; otherwise Errors with every changed or removed path of every
\* ESP, Valid when there is none; its assertion on additions never fails.
C17_ValidateReportsEveryEsp ==
    \A p \in Procs :
        (proc[p].op = "validate" /\ Len(proc[p].log) >= 2)
        => LET r == proc[p].res
               booted == proc[p].log[1].ok
               found == proc[p].log[2].ok
               expected == IF found
                           THEN ExpectedErrs(FileTreeOf(stateFile.saved.installed["EFI"].filetree), 1)
                           ELSE <<>>
           IN /\ r.at # "assert_additions"
              /\ r.kind \in {"Skip", "Valid", "Errors"}
                    => /\ r.kind = "Skip" <=> (~booted /\ ~found)
                       /\ r.kind = "Valid" => expected = <<>>
                       /\ r.kind = "Errors" => proc[p].errs = expected

\* ------------------------------------------------- strip_grub_config_file
MaxLines == 3
BEGIN_OSTREE == "### BEGIN /etc/grub.d/15_ostree ###"
END_OSTREE == "### END /etc/grub.d/15_ostree ###"
LineTexts == {BEGIN_OSTREE, END_OSTREE, "### BEGIN /etc/grub.d/10_linux ###", ""}
\* how a line of the input ends; only the last line can end without a newline
LineEnds == {"\n", "\r\n", ""}

\* the input file: lines as BufRead::lines() yields them, with their endings
GrubConfigs ==
    UNION {{c \in [1..n -> [text : LineTexts, eol : LineEnds]] :
               \A k \in 1..n : c[k].eol = "" => k = n} : n \in 0..MaxLines}

InitStrip ==
    /\ Quiet
    /\ call \in [pc : {"open"}, input : GrubConfigs, k : {1}, skip : {FALSE},
                 out : {<<>>}, result : {"none"}]

\* dirfd.write_file(stripped_config_name, 0644)
StripOpen ==
    /\ call.pc = "open"
    /\ \E ok \in BOOLEAN :
         call' = IF ok THEN [call EXCEPT !.pc = "lines"]
                 ELSE [call EXCEPT !.pc = "done", !.result = "return_err"]
    /\ UNCHANGED ProgramVars

\* what the loop body does with one line: the new skip flag and whether the
\* line is written
strip_line(skip, line) ==
    IF line = END_OSTREE THEN [skip |-> FALSE, write |-> FALSE]
    ELSE IF skip THEN [skip |-> TRUE, write |-> FALSE]
    ELSE IF line = BEGIN_OSTREE THEN [skip |-> TRUE, write |-> FALSE]
    ELSE [skip |-> FALSE, write |-> TRUE]

\* one iteration of `for line in current_config_content.lines()`
StripLine ==
    /\ call.pc = "lines"
    /\ call.k <= Len(call.input)
    /\ \E ok \in BOOLEAN :
         LET s == strip_line(call.skip, call.input[call.k].text)
         IN call' = IF ~ok
                    THEN [call EXCEPT !.pc = "done", !.result = "return_err"]
                    ELSE [call EXCEPT
                            !.k = @ + 1,
                            !.skip = s.skip,
                            !.out = IF s.write
                                    THEN Append(@, [text |-> call.input[call.k].text,
                                                    eol |-> "\n"])
                                    ELSE @]
    /\ UNCHANGED ProgramVars

\* writer.into_inner()?.sync_data()?
StripFlush ==
    /\ call.pc = "lines"
    /\ call.k > Len(call.input)
    /\ \E ok \in BOOLEAN :
         call' = [call EXCEPT !.pc = "done",
                              !.result = IF ok THEN "return_ok" ELSE "return_err"]
    /\ UNCHANGED ProgramVars

NextStrip == StripOpen \/ StripLine \/ StripFlush

SpecStrip == InitStrip /\ [][NextStrip]_vars

\* index of the first END line after position k, 0 when there is none
RECURSIVE MatchingEnd(_, _)
MatchingEnd(c, k) ==
    IF k >= Len(c) THEN 0
    ELSE IF c[k + 1].text = END_OSTREE THEN k + 1
    ELSE MatchingEnd(c, k + 1)

\* the lines from position k on without the fenced blocks: a BEGIN line, its
\* matching END line and the lines between go, every other line stays
RECURSIVE WithoutBlocks(_, _)
WithoutBlocks(c, k) ==
    IF k > Len(c) THEN <<>>
    ELSE IF c[k].text = BEGIN_OSTREE
    THEN IF MatchingEnd(c, k) # 0
         THEN WithoutBlocks(c, MatchingEnd(c, k) + 1)
         ELSE WithoutBlocks(c, k + 1)
    ELSE <<[text |-> c[k].text, eol |-> "\n"]>> \o WithoutBlocks(c, k + 1)

\* C18: for any input, strip_grub_config_file writes the input lines in order
\* without each BEGIN 15_ostree line, its matching END line and the lines
\* between them; every other line is kept and every written line ends with a
\* newline.
C18_StripKeepsOtherLines ==
    ("pc" \in DOMAIN call /\ call.pc = "done" /\ "out" \in DOMAIN call
        /\ call.result = "return_ok")
    => call.out = WithoutBlocks(call.input, 1)

\* ---------------------------------- client_run_migrate_static_grub_config
MaxRuns == 2

\* the whole of strip_grub_config_file on the lines of a file
RECURSIVE StripFrom(_, _, _)
StripFrom(lines, k, skip) ==
    IF k > Len(lines) THEN <<>>
    ELSE LET s == strip_line(skip, lines[k])
         IN (IF s.write THEN <<lines[k]>> ELSE <<>>) \o StripFrom(lines, k + 1, s.skip)
strip_grub_config(lines) == StripFrom(lines, 1, FALSE)

\* what fsfreeze_thaw_cycle returns in the environment c of FreezeCalls
fsfreeze_thaw_cycle(c) ==
    /\ c.syncfs = "Ok"
    /\ c.guard = "Ok"
    /\ \/ freeze_match(c.freeze) = "return_ok"
       \/ freeze_match(c.freeze) = "thaw" /\ c.thaw = "Ok"

\* configurations the OS image generates: with and without an ostree block
ManagedConfigs ==
    {<<"### BEGIN /etc/grub.d/10_linux ###", BEGIN_OSTREE, "", END_OSTREE>>,
     <<"### BEGIN /etc/grub.d/10_linux ###">>}

\* /boot/grub2 before the first run: grub.cfg a symlink to a managed
\* configuration (or dangling), a regular file, or missing
Grub2Dirs ==
    {[StaticGrub2Dir EXCEPT !.cfg = [kind |-> "symlink", lines |-> <<>>],
                            !.target = t, !.original = t] :
        t \in {Absent} \cup {FileOf(c) : c \in ManagedConfigs}}
    \cup {StaticGrub2Dir, [StaticGrub2Dir EXCEPT !.cfg = [kind |-> "absent", lines |-> <<>>]]}

InitMigrate ==
    /\ call = NoCall
    /\ stateFile = NoFile
    /\ lock = NoProc
    /\ avail = [c \in Components |-> 2]
    /\ mpExists = AllExist
    /\ mnt = NoMounts
    /\ esp = [d \in 1..NDisks |-> 0]
    /\ grub = [d \in 1..NDisks |-> 0]
    /\ bootloader \in {"unset", "none"}
    /\ grub2dir \in Grub2Dirs
    /\ proc = [p \in Procs |-> ProcInit]
    /\ budget = [ops |-> MaxRuns, par |-> 1, crashes |-> MaxCrashes, images |-> 0]

MigrateVars == <<stateFile, lock, avail, mpExists, call, mnt, esp, grub>>

MigrateResult(kind, at) == Result(kind, at, 0, 0, 0, NoStatus)

\* a step of the migration that fails with `?`
MigrateFail(p, at) ==
    /\ Leave(p, proc[p], MigrateResult("error", at))
    /\ UNCHANGED <<grub2dir, bootloader>>

MigrateGoto(p, pc) ==
    proc' = [proc EXCEPT ![p].pc = pc]

\* get_ostree_bootloader and the test for "none"
MigrateStart(p) ==
    /\ CanStart(p)
    /\ CountOp
    /\ UNCHANGED <<MigrateVars, grub2dir, bootloader>>
    /\ LET r == Log(Started("migrate", "none"),
                    Event("grub.cfg", 0, 0, grub2dir.cfg.kind = "symlink"))
       IN \E ok \in BOOLEAN :
            IF ~ok THEN Leave(p, r, MigrateResult("error", "get_ostree_bootloader"))
            ELSE IF bootloader = "none"
            THEN Leave(p, r, MigrateResult("already", "return"))
            ELSE proc' = [proc EXCEPT ![p] = [r EXCEPT !.pc = "m_boot"]]

\* ensure_writable_boot, opening /boot/grub2, and the BLS marker, whose
\* creation may fail without an error
MigrateOpen(p) ==
    /\ proc[p].pc = "m_boot"
    /\ UNCHANGED <<MigrateVars, budget, bootloader>>
    /\ \E outcome \in {"ok", "ensure_writable_boot", "open_grub2"}, created \in BOOLEAN :
         IF outcome # "ok"
         THEN /\ created
              /\ Leave(p, proc[p], MigrateResult("error", outcome))
              /\ UNCHANGED grub2dir
         ELSE /\ grub2dir' = [grub2dir EXCEPT !.marker = @ \/ created]
              /\ MigrateGoto(p, "m_readlink")

\* match dirfd.read_link("grub.cfg"): every error counts as "not a symlink"
MigrateReadLink(p) ==
    /\ proc[p].pc = "m_readlink"
    /\ UNCHANGED <<MigrateVars, budget, bootloader, grub2dir>>
    /\ \E ok \in BOOLEAN :
         /\ grub2dir.cfg.kind # "symlink" => ~ok
         /\ proc' = [proc EXCEPT ![p] =
                [Log(proc[p], Event("read_link", 0, 0, ok)) EXCEPT
                    !.pc = IF ok THEN "m_backup" ELSE "m_set"]]

\* fs::copy(current_config, backup_config): the backup is created empty, ...
MigrateBackupOpen(p) ==
    /\ proc[p].pc = "m_backup"
    /\ UNCHANGED <<MigrateVars, budget, bootloader>>
    /\ \E ok \in BOOLEAN :
         /\ ~grub2dir.target.exists => ~ok
         /\ IF ok
            THEN /\ grub2dir' = [grub2dir EXCEPT !.backup = FileOf(<<>>)]
                 /\ MigrateGoto(p, "m_backup_copy")
            ELSE MigrateFail(p, "backup")

\* ... then filled
MigrateBackupCopy(p) ==
    /\ proc[p].pc = "m_backup_copy"
    /\ UNCHANGED <<MigrateVars, budget, bootloader>>
    /\ \E ok \in BOOLEAN :
         IF ok
         THEN /\ grub2dir' = [grub2dir EXCEPT !.backup = grub2dir.target]
              /\ MigrateGoto(p, "m_strip")
         ELSE MigrateFail(p, "backup")

\* File::open(current_config) and the write_file of strip_grub_config_file
MigrateStripOpen(p) ==
    /\ proc[p].pc = "m_strip"
    /\ UNCHANGED <<MigrateVars, budget, bootloader>>
    /\ \E outcome \in {"ok", "open_current", "open_stripped"} :
         IF outcome = "ok"
         THEN /\ grub2dir' = [grub2dir EXCEPT !.stripped = FileOf(<<>>)]
              /\ MigrateGoto(p, "m_strip_write")
         ELSE MigrateFail(p, outcome)

\* the loop and the flush of strip_grub_config_file
MigrateStripWrite(p) ==
    /\ proc[p].pc = "m_strip_write"
    /\ UNCHANGED <<MigrateVars, budget, bootloader>>
    /\ \E ok \in BOOLEAN :
         IF ok
         THEN /\ grub2dir' = [grub2dir EXCEPT
                    !.stripped = FileOf(strip_grub_config(grub2dir.target.lines))]
              /\ MigrateGoto(p, "m_rename")
         ELSE MigrateFail(p, "strip")

\* dirfd.local_rename(stripped_config, "grub.cfg")
MigrateRename(p) ==
    /\ proc[p].pc = "m_rename"
    /\ UNCHANGED <<MigrateVars, budget, bootloader>>
    /\ \E ok \in BOOLEAN :
         IF ok
         THEN /\ grub2dir' = [grub2dir EXCEPT
                    !.cfg = [kind |-> "file", lines |-> grub2dir.stripped.lines],
                    !.stripped = Absent]
              /\ MigrateGoto(p, "m_freeze")
         ELSE MigrateFail(p, "rename")

\* fsfreeze_thaw_cycle(dirfd.open_file(".")?)?
MigrateFreeze(p) ==
    /\ proc[p].pc = "m_freeze"
    /\ UNCHANGED <<MigrateVars, budget, bootloader, grub2dir>>
    /\ \E c \in FreezeCalls :
         IF fsfreeze_thaw_cycle(c)
         THEN proc' = [proc EXCEPT ![p] =
                  [Log(proc[p], Event("fsfreeze_thaw_cycle", 0, 0, TRUE)) EXCEPT
                      !.pc = "m_set"]]
         ELSE Leave(p, proc[p], MigrateResult("error", "fsfreeze_thaw_cycle"))

\* ostreeutil::set_ostree_bootloader("none")
MigrateSet(p) ==
    /\ proc[p].pc = "m_set"
    /\ UNCHANGED <<MigrateVars, budget, grub2dir>>
    /\ \E ok \in BOOLEAN :
         IF ok
         THEN /\ bootloader' = "none"
              /\ Leave(p, proc[p], MigrateResult("migrated", "return"))
         ELSE /\ Leave(p, proc[p], MigrateResult("error", "set_ostree_bootloader"))
              /\ UNCHANGED bootloader

\* the run is killed or the machine loses power between two steps
MigrateInterrupted(p) ==
    /\ ~Idle(p)
    /\ budget.crashes > 0
    /\ budget' = [budget EXCEPT !.crashes = @ - 1]
    /\ Leave(p, proc[p], MigrateResult("crashed", proc[p].pc))
    /\ UNCHANGED <<MigrateVars, bootloader, grub2dir>>

NextMigrate ==
    \/ \E p \in Procs : MigrateStart(p)
    \/ \E p \in Procs : MigrateOpen(p)
    \/ \E p \in Procs : MigrateReadLink(p)
    \/ \E p \in Procs : MigrateBackupOpen(p)
    \/ \E p \in Procs : MigrateBackupCopy(p)
    \/ \E p \in Procs : MigrateStripOpen(p)
    \/ \E p \in Procs : MigrateStripWrite(p)
    \/ \E p \in Procs : MigrateRename(p)
    \/ \E p \in Procs : MigrateFreeze(p)
    \/ \E p \in Procs : MigrateSet(p)
    \/ \E p \in Procs : MigrateInterrupted(p)

SpecMigrate == InitMigrate /\ [][NextMigrate]_vars

HasEvent(r, ev) == \E k \in 1..Len(r.log) : r.log[k].ev = ev /\ r.log[k].ok

\* C19: the migration changes nothing when sysroot.bootloader is already
\* none; it sets the option to none only as its last step and, when grub.cfg
\* was a symlink at the start of the run, only after the backup holds the
\* configuration, grub.cfg is the stripped file and freeze/thaw succeeded; a
\* migration that completes, re-run or not, leaves the original configuration
\* in grub.cfg.backup.
C19_MigrationSetsNoneLast ==
    /\ [][bootloader = "none" => UNCHANGED <<bootloader, grub2dir>>]_vars
    /\ [][\A p \in Procs :
            (proc[p].op = "migrate" /\ bootloader # "none" /\ bootloader' = "none"
                /\ proc'[p] # proc[p])
            => /\ Idle(p)'
               /\ proc[p].log[1].ok
                    => /\ grub2dir.backup = grub2dir.target
                       /\ grub2dir.cfg = [kind |-> "file",
                                          lines |-> strip_grub_config(grub2dir.target.lines)]
                       /\ HasEvent(proc[p], "fsfreeze_thaw_cycle")]_vars
    /\ [](\A p \in Procs :
            (proc[p].res.kind = "migrated" /\ grub2dir.original.exists)
            => grub2dir.backup = grub2dir.original)

\* ------------------------------------------------- Efi::update_firmware
\* boot entry numbers the firmware may hold, as hex digits, in the order
\* efibootmgr lists them
BootNums == << <<"0","0","0","0">>, <<"0","0","0","1">>, <<"0","0","0","2">>,
               <<"2","0","0","1">> >>
Labels == {"Fedora", "FEDORA", "Windows Boot Manager"}
\* str::to_lowercase on the labels
to_lowercase(s) ==
    CASE s = "Fedora" -> "fedora"
      [] s = "FEDORA" -> "fedora"
      [] OTHER -> "windows boot manager"

VENDOR == "fedora"
SHIM == "shimx64.efi"
\* the loader of the entry create_efi_boot_entry asks for: \EFI\<vendor>\<SHIM>
ShimLoader == <<"EFI", VENDOR, SHIM>>
OtherLoader == <<"EFI", "Microsoft", "bootmgfw.efi">>

\* the boot entries before the call: each of three numbers free or taken; `by`
\* tells an entry this call created from an earlier one with the same number
BootEntrySets ==
    {{[num |-> BootNums[k], label |-> f[k], by |-> "earlier",
       loader |-> IF to_lowercase(f[k]) = "fedora" THEN ShimLoader ELSE OtherLoader] :
         k \in {j \in DOMAIN f : f[j] # "free"}} :
       f \in [{1, 2, 4} -> Labels \cup {"free"}]}

\* one line of the output of efibootmgr without its "Boot" prefix: the word up
\* to the first blank and the text between it and the tab
BootLine(e) == [word |-> e.num \o <<"*">>, rest |-> e.label]
HeaderLines == <<[word |-> <<"C","u","r","r","e","n","t",":">>, rest |-> "0001"],
                 [word |-> <<"O","r","d","e","r",":">>, rest |-> "0001,0000"]>>
efibootmgr_output(entries) ==
    HeaderLines \o
    [k \in 1..Cardinality({j \in DOMAIN BootNums : \E e \in entries : e.num = BootNums[j]}) |->
        LET j == CHOOSE j \in DOMAIN BootNums :
                   /\ \E e \in entries : e.num = BootNums[j]
                   /\ Cardinality({i \in 1..j : \E e \in entries : e.num = BootNums[i]}) = k
        IN BootLine(CHOOSE e \in entries : e.num = BootNums[j])]

\* trim_end_matches('*')
RECURSIVE trim_star(_)
trim_star(w) ==
    IF w # <<>> /\ w[Len(w)] = "*" THEN trim_star(SubSeq(w, 1, Len(w) - 1)) ELSE w

\* parse_boot_entries: lines whose text after "Boot" starts with '0'
parse_boot_entries(output) ==
    LET Keep(l) == l.word[1] = "0"
        kept == SelectSeq(output, Keep)
    IN [k \in 1..Len(kept) |-> [id |-> trim_star(kept[k].word), name |-> kept[k].rest]]

\* the entries clear_efi_target deletes, in order
clear_targets(target, output) ==
    LET Match(e) == to_lowercase(e.name) = to_lowercase(target)
    IN SelectSeq(parse_boot_entries(output), Match)

\* the test of create_efi_boot_entry before it runs efibootmgr --create
shim_check_bails(files) == <<VENDOR, SHIM>> \in files

\* the environment of one call from Efi::install, after `cp` has put the
\* payload under EFI/ on the ESP; the ESP may hold other files
FirmwareCalls ==
    [pc : {"start"}, booted : BOOLEAN, product : {"Fedora"},
     before : BootEntrySets, entries : BootEntrySets,
     files : {{ShimLoader}, {ShimLoader, <<VENDOR, SHIM>>}},
     todo : {<<>>}, issued : {<<>>}, result : {"none"}]

InitFirmware ==
    /\ Quiet
    /\ call \in {c \in FirmwareCalls : c.before = c.entries}

FwDone(result) == [call EXCEPT !.pc = "done", !.result = result]

\* update_firmware up to clear_efi_target
FwStart ==
    /\ call.pc = "start"
    /\ \E ok \in BOOLEAN :
         call' = IF ~call.booted THEN FwDone("skipped")
                 ELSE IF ~ok THEN FwDone("err_env")
                 ELSE [call EXCEPT !.pc = "clear"]
    /\ UNCHANGED ProgramVars

\* clear_efi_target: list and parse the entries
FwClearList ==
    /\ call.pc = "clear"
    /\ \E ok \in BOOLEAN :
         call' = IF ~ok THEN FwDone("err_env")
                 ELSE [call EXCEPT
                         !.pc = "clear_loop",
                         !.todo = clear_targets(call.product,
                                                efibootmgr_output(call.entries))]
    /\ UNCHANGED ProgramVars

\* clear_efi_target: efibootmgr -b <id> -B for the next match
FwClearDelete ==
    /\ call.pc = "clear_loop"
    /\ call.todo # <<>>
    /\ \E ok \in BOOLEAN :
         call' = IF ~ok THEN FwDone("err_env")
                 ELSE [call EXCEPT
                         !.todo = Tail(@),
                         !.entries = {e \in @ : e.num # call.todo[1].id},
                         !.issued = Append(@, <<"delete", call.todo[1].id>>)]
    /\ UNCHANGED ProgramVars

FreeNum(entries) ==
    BootNums[CHOOSE j \in DOMAIN BootNums :
                /\ \A e \in entries : e.num # BootNums[j]
                /\ \A i \in 1..(j - 1) : \E e \in entries : e.num = BootNums[i]]

\* create_efi_boot_entry
FwCreate ==
    /\ call.pc = "clear_loop"
    /\ call.todo = <<>>
    /\ \E outcome \in {"ok", "inspect_filesystem", "partition", "exists", "efibootmgr"} :
         call' = IF outcome \in {"inspect_filesystem", "partition", "exists"}
                 THEN FwDone("err_env")
                 ELSE IF shim_check_bails(call.files) THEN FwDone("err_shim")
                 ELSE IF outcome = "efibootmgr" THEN FwDone("err_env")
                 ELSE [FwDone("return_ok") EXCEPT
                         !.entries = @ \cup {[num |-> FreeNum(call.entries),
                                              label |-> call.product,
                                              by |-> "create_efi_boot_entry",
                                              loader |-> ShimLoader]},
                         !.issued = Append(@, <<"create", ShimLoader>>)]
    /\ UNCHANGED ProgramVars

NextFirmware == FwStart \/ FwClearList \/ FwClearDelete \/ FwCreate

SpecFirmware == InitFirmware /\ [][NextFirmware]_vars

\* C20: on an EFI-booted system update_firmware first deletes every boot entry
\* whose label equals the product name without regard to case, then creates
\* one entry whose loader is \EFI\<vendor>\<shim>; the creation succeeds when
\* that shim file is on the ESP and fails when it is not.
C20_FirmwareEntryReplaced ==
    ("pc" \in DOMAIN call /\ call.pc = "done" /\ "before" \in DOMAIN call
        /\ call.booted /\ call.result # "err_env")
    => LET shim_there == ShimLoader \in call.files
           fresh == call.entries \ call.before
       IN /\ \A e \in call.before :
                to_lowercase(e.label) = to_lowercase(call.product) => e \notin call.entries
          /\ shim_there
                => /\ call.result = "return_ok"
                   /\ fresh = {e \in call.entries :
                                 e.label = call.product /\ e.loader = ShimLoader}
                   /\ Cardinality(fresh) = 1
                   /\ call.issued[Len(call.issued)] = <<"create", ShimLoader>>
                   /\ \A k \in 1..(Len(call.issued) - 1) : call.issued[k][1] = "delete"
          /\ ~shim_there => call.result = "err_shim" /\ fresh = {}

\* ------------------------------------------------- find_parent_devices
MaxLsblk == 5

\* lines `lsblk --pairs --paths --inverse --output NAME,TYPE` can print; a
\* TYPE of "" stands for a line the regular expression finds no TYPE in
LsblkEntries ==
    {[name |-> "/dev/md0", type |-> "raid1"],
     [name |-> "/dev/sda1", type |-> "part"], [name |-> "/dev/sda2", type |-> "part"],
     [name |-> "/dev/sdb1", type |-> "part"],
     [name |-> "/dev/sda", type |-> "disk"], [name |-> "/dev/sdb", type |-> "disk"],
     [name |-> "/dev/mapper/mpatha", type |-> "mpath"],
     [name |-> "/dev/sdc", type |-> ""]}

\* the disk a partition is on
DiskOf(part) == IF part = "/dev/sdb1" THEN "/dev/sdb" ELSE "/dev/sda"

\* outputs lsblk gives: the device itself first, then its parents; a RAID
\* device has several members, each partition listed once and followed by
\* its disk or by the multipath device over it, the legs of a multipath
\* device after it
LsblkOutputs ==
    UNION {{o \in [1..n -> LsblkEntries] :
              /\ o[1].type \in {"raid1", "part"}
              /\ \A k \in 2..n :
                    /\ o[k].type # "raid1"
                    /\ o[k].type = "part" =>
                          /\ o[1].type = "raid1"
                          /\ o[k - 1].type \in {"raid1", "disk"}
                          /\ \A j \in 1..(k - 1) : o[j].name # o[k].name
                    /\ o[k].type = "mpath" => o[k - 1].type = "part"
                    /\ o[k].type \in {"disk", ""} =>
                          \/ o[k - 1].type = "part" /\ o[k].name \in {DiskOf(o[k - 1].name), "/dev/sdc"}
                          \/ \E j \in 1..(k - 1) : o[j].type = "mpath"
              /\ o[n].type # "part"} : n \in 2..MaxLsblk}

InitParents ==
    /\ Quiet
    /\ call \in [pc : {"lsblk"}, output : LsblkOutputs, k : {2}, parents : {<<>>},
                 result : {"none"}]

\* util::cmd_output(lsblk ...)?
ParentsLsblk ==
    /\ call.pc = "lsblk"
    /\ \E ok \in BOOLEAN :
         call' = IF ok THEN [call EXCEPT !.pc = "lines"]
                 ELSE [call EXCEPT !.pc = "done", !.result = "return_err"]
    /\ UNCHANGED ProgramVars

\* what the loop body does with a line of this TYPE
parent_line_keeps(kind) == kind \in {"disk", "mpath"}

\* one iteration of the loop over output.lines().skip(1)
ParentsLine ==
    /\ call.pc = "lines"
    /\ call.k <= Len(call.output)
    /\ LET dev == call.output[call.k]
       IN call' = IF dev.type = ""
                  THEN [call EXCEPT !.pc = "done", !.result = "return_err"]
                  ELSE [call EXCEPT
                          !.parents = IF parent_line_keeps(dev.type)
                                      THEN Append(@, dev.name) ELSE @,
                          !.k = IF dev.type = "mpath" THEN Len(call.output) + 1 ELSE @ + 1]
    /\ UNCHANGED ProgramVars

\* Ok(parents)
ParentsReturn ==
    /\ call.pc = "lines"
    /\ call.k > Len(call.output)
    /\ call' = [call EXCEPT !.pc = "done", !.result = "return_ok"]
    /\ UNCHANGED ProgramVars

NextParents == ParentsLsblk \/ ParentsLine \/ ParentsReturn

SpecParents == InitParents /\ [][NextParents]_vars

\* the disk and mpath names of lines k.. up to the first mpath line, each once
RECURSIVE WholeDisks(_, _, _)
WholeDisks(o, k, seen) ==
    IF k > Len(o) THEN <<>>
    ELSE IF o[k].type = "mpath"
    THEN IF o[k].name \in seen THEN <<>> ELSE <<o[k].name>>
    ELSE IF o[k].type = "disk" /\ o[k].name \notin seen
    THEN <<o[k].name>> \o WholeDisks(o, k + 1, seen \cup {o[k].name})
    ELSE WholeDisks(o, k + 1, seen)

\* C21: find_parent_devices returns, in lsblk's order, the paths of the disk
\* and mpath entries above the device, none of them twice, and nothing that
\* lsblk lists after the first mpath entry.
C21_ParentsOrderedOnce ==
    ("pc" \in DOMAIN call /\ call.pc = "done" /\ "parents" \in DOMAIN call
        /\ call.result = "return_ok")
    => call.parents = WholeDisks(call.output, 2, {})

\* ------------------------------------------------ durability of ESP writes
\* the unmounts in log l whose mount point was written to (by one of `writes`)
\* since it was mounted, with no freeze/thaw cycle between the last write and
\* the unmount
UnsyncedUnmounts(l, writes) ==
    {k \in 1..Len(l) :
        /\ l[k].ev \in {"umount", "drop_umount"}
        /\ l[k].ok
        /\ \E j \in 1..(k - 1) :
              /\ l[j].ev \in writes /\ l[j].ok /\ l[j].mp = l[k].mp
              /\ \A m \in (j + 1)..(k - 1) :
                    ~(l[m].mp = l[k].mp /\ l[m].ev \in {"umount", "drop_umount", "freeze"})}

sigterm_suppressed_until_freeze(pc) == pc = "freeze"

\* the positions of fsfreeze_thaw_cycle at which `_guard` is alive: from
\* SignalTerminationGuard::new() to the end of the function
sigterm_suppressed(pc) == pc \in {"freeze", "thaw"}

\* SIGTERM arrives during the call: the registered handler does nothing;
\* without it the process is terminated where it stands
FreezeSigterm ==
    /\ call.pc \in {"syncfs", "guard", "freeze", "thaw"}
    /\ call.sigterm = "pending"
    /\ call' = IF sigterm_suppressed(call.pc)
               THEN [call EXCEPT !.sigterm = "ignored"]
               ELSE [call EXCEPT !.sigterm = "delivered", !.pc = "done",
                                 !.result = "killed"]
    /\ UNCHANGED ProgramVars

SpecFreezeSigterm == InitFreeze /\ [][NextFreeze \/ FreezeSigterm]_vars

\* C23: syncfs is called first and FIFREEZE is attempted only after syncfs
\* succeeded; FITHAW is issued exactly when FIFREEZE succeeded; SIGTERM is
\* suppressed from before FIFREEZE until FITHAW has returned, so the call
\* never ends with the filesystem frozen unless FITHAW itself failed.
C23_ThawFollowsFreeze ==
    /\ (call.issued # <<>>) => call.issued[1] = "syncfs"
    /\ Issued(call, "FIFREEZE")
          => /\ call.syncfs = "Ok"
             /\ \E k \in 1..Len(call.issued) :
                   call.issued[k] = "sigterm_guard" /\ call.issued[k + 1] = "FIFREEZE"
    /\ (call.pc = "done")
          => /\ Issued(call, "FITHAW") <=> (Issued(call, "FIFREEZE") /\ call.freeze = "Ok")
             /\ call.frozen => (Issued(call, "FITHAW") /\ call.thaw # "Ok")
    /\ (call.frozen /\ call.pc # "done") => sigterm_suppressed(call.pc)

C23_Witness ==
    /\ call.pc = "done"
    /\ call.sigterm = "ignored"
    /\ call.issued = <<"syncfs", "sigterm_guard", "FIFREEZE", "FITHAW">>
    /\ call.result = "Ok"
    /\ ~call.frozen

\* ------------------------------------------- operations that do nothing
\* the invocation has ended without touching anything: no event in its log
\* and the state file is the one it loaded
NothingDone(p) ==
    /\ Idle(p)
    /\ proc[p].log = <<>>
    /\ load_from_disk(stateFile) = proc[p].loaded

\* C24: update(name) of a component that is not installed is an error; it is
\* AtLatestVersion when there is no update or can_upgrade_to is not Less;
\* adopt_and_update(name) is an error when the component is installed or has
\* no update, and None when the component declines; in all these cases the
\* state file is not written and nothing is written to a disk or an ESP.
C24_NothingToDoWritesNothing ==
    /\ [][\A p \in Procs :
            (Idle(p) /\ proc'[p] # proc[p])
            => LET name == proc'[p].name
                   inst == unwrap_or_default(load_from_disk(stateFile)).installed[name]
                   update == query_update(avail, name)
               IN /\ (proc'[p].op = "update" /\ inst.meta = 0)
                        => (proc'[p].res.kind = "error" /\ UNCHANGED <<stateFile, esp, grub, mnt>>)
                  /\ (proc'[p].op = "update" /\ inst.meta # 0
                        /\ (update = 0 \/ can_upgrade_to(inst.meta, update) # "Less"))
                        => (proc'[p].res.kind = "AtLatestVersion"
                            /\ UNCHANGED <<stateFile, esp, grub, mnt>>)
                  /\ (proc'[p].op = "adopt" /\ (inst.meta # 0 \/ update = 0))
                        => (proc'[p].res.kind = "error" /\ UNCHANGED <<stateFile, esp, grub, mnt>>)]_vars
    /\ [](\A p \in Procs :
            (\/ proc[p].res.kind \in {"AtLatestVersion", "Skipped"}
             \/ proc[p].res.at \in {"not_installed", "already_installed", "no_update"})
            => NothingDone(p))

C24_Witness ==
    \E p \in Procs :
        /\ proc[p].op = "update"
        /\ proc[p].res.kind = "AtLatestVersion"
        /\ query_update(avail, proc[p].name) # 0
        /\ stateFile.present
        /\ NothingDone(p)

\* ------------------------------------------------- what install() leaves
\* the components install() was asked for and did not skip
InstallExpected(r) ==
    {c \in Components :
        /\ \E k \in 1..Len(r.targets) : r.targets[k] = c
        /\ ~(c = "BIOS" /\ r.device = 0)
        /\ query_update(avail, c) # 0}

\* C25: when install returns an error no state file has been written, and
\* for an unknown component name nothing has been installed; the state file
\* install writes lists exactly the targeted components that were not
\* skipped, and has no `pending`.
C25_InstallWritesOnlyOnSuccess ==
    /\ [][\A p \in Procs :
            (proc'[p].op = "install" /\ proc'[p] # proc[p])
            => /\ proc'[p].res.kind = "error" => stateFile' = stateFile
               /\ proc'[p].res.at = "unknown_component"
                    => (proc'[p].log = <<>> /\ UNCHANGED <<esp, grub, mnt>>)
               /\ stateFile' # stateFile
                    => /\ proc'[p].res.kind = "Installed"
                       /\ stateFile'.present
                       /\ InstalledKeys(stateFile'.saved) = InstallExpected(proc[p])
                       /\ ~stateFile'.saved.pending_some]_vars
    /\ [](\A p \in Procs :
            (proc[p].op = "install" /\ proc[p].res.kind = "error"
                /\ proc[p].res.at # "ensure_not_present")
            => ~stateFile.present)

C25_Witness ==
    \E p \in Procs :
        /\ proc[p].op = "install"
        /\ proc[p].res.kind = "Installed"
        /\ InstalledKeys(stateFile.saved) = {"EFI"}
        /\ ~stateFile.saved.pending_some
        /\ HasEvent(proc[p], "cp")

\* ------------------------------------------------ what update() rewrites
\* the pending entry of component c in a SavedState, 0 when there is none
PendingOf(st, c) == IF st.pending_some THEN st.pending[c] ELSE 0

C27_ConcurrentResultsBothKept ==
    \A p, q \in Procs :
        (/\ p # q
         /\ Idle(p) /\ Idle(q)
         /\ proc[p].res.kind \in {"Updated", "Adopted"}
         /\ proc[q].res.kind \in {"Updated", "Adopted"}
         /\ proc[p].name # proc[q].name)
        => /\ stateFile.saved.installed[proc[p].name].meta = proc[p].res.new
           /\ stateFile.saved.installed[proc[q].name].meta = proc[q].res.new

\* ------------------------------------- one operation after another
\* SpecSeq: operations in one behaviour
MaxSeq == 2

\* operations one after another on a system that bootupd installed or that
\* it has still to adopt, with an image change in between
InitSeq ==
    /\ call = NoCall
    /\ InitWith({NoFile, FileWith({"BIOS", "EFI"}, {})},
             {AllExist}, {NoMounts},
             [ops |-> MaxSeq, par |-> 1, crashes |-> 0, images |-> MaxImages])

NextSeq ==
    \/ Operations
    \/ \E c \in Components, m \in OptMeta : NewImage(c, m)

SpecSeq == InitSeq /\ [][NextSeq]_vars

\* C28: a successful update keeps the adopted_from of the component: the
\* entry it writes, and the status of the component, still carry the version
\* synthesized at adoption.
C28_UpdateKeepsAdoptedFrom ==
    \A p \in Procs :
        (/\ proc[p].op = "update"
         /\ proc[p].res.kind = "Updated"
         /\ unwrap_or_default(proc[p].loaded).installed[proc[p].name].adopted_from # 0)
        => LET was == unwrap_or_default(proc[p].loaded).installed[proc[p].name].adopted_from
           IN /\ stateFile.saved.installed[proc[p].name].adopted_from = was
              /\ proc[p].res.status.adopted_from = was

\* ----------------------- rpm_parse_metadata and ContentMetadata::can_upgrade_to
\* SpecMetadata: packages in one output of `rpm -q`
MaxPkgs == 2

\* The packages rpm can name, "%{nevra}", in string order: the keys of the
\* BTreeMap come out in this order ('1' sorts before 'c')
NevraOrder ==
    << Tok(<<"grub2", "efi", "x64">>, 1, ARCH),
       Tok(<<"grub2", "efi", "x64">>, 2, ARCH),
       Tok(<<"grub2", "efi", "x64", "cdboot">>, 1, ARCH),
       Tok(<<"grub2", "efi", "x64", "cdboot">>, 2, ARCH),
       Tok(<<"shim", "x64">>, 1, ARCH) >>

\* outputs of `rpm -q -f <paths>`: one "nevra,buildtime" word per path, so a
\* package can come more than once and in any order
RpmOutputs == UNION {[1..n -> 1..Len(NevraOrder)] : n \in 1..MaxPkgs}

\* pkgs.keys(): the distinct package names in key order
RECURSIVE BTreeKeys(_, _)
BTreeKeys(stdout, k) ==
    IF k > Len(NevraOrder) THEN <<>>
    ELSE (IF \E i \in 1..Len(stdout) : stdout[i] = k THEN <<NevraOrder[k]>> ELSE <<>>)
         \o BTreeKeys(stdout, k + 1)

\* rpm_parse_metadata: `version` is the keys joined by ',', `versions` is
\* Some(the keys through parse_evr, sorted)
rpm_parse_metadata(stdout) ==
    LET keys == BTreeKeys(stdout, 1)
    IN [version |-> keys,
        versions |-> <<SortModules([k \in 1..Len(keys) |-> parse_evr(keys[k])])>>]

\* ContentMetadata::can_upgrade_to on the two fields; `versions` is an
\* Option, a sequence of length <= 1
can_upgrade_to_fields(self, target) ==
    IF self.versions # <<>> /\ target.versions # <<>>
    THEN compare_package_slices(self.versions[1], target.versions[1])
    ELSE compare_package_versions(self.version, target.version)

\* the same metadata as a state file written before `versions` existed has it
without_versions(meta) == [meta EXCEPT !.versions = <<>>]

InitMetadata ==
    /\ Quiet
    /\ call \in [pc : {"rpm"}, stdout_a : RpmOutputs, stdout_b : RpmOutputs,
                 a : {<<>>}, b : {<<>>}, by_versions : {"none"}, by_version : {"none"}]

\* query_files twice: the installed content and the update
MetadataParse ==
    /\ call.pc = "rpm"
    /\ call' = [call EXCEPT !.pc = "compare",
                            !.a = <<rpm_parse_metadata(call.stdout_a)>>,
                            !.b = <<rpm_parse_metadata(call.stdout_b)>>]
    /\ UNCHANGED ProgramVars

\* a.can_upgrade_to(b), with the lists and with the strings only
MetadataCompare ==
    /\ call.pc = "compare"
    /\ call' = [call EXCEPT
                  !.pc = "done",
                  !.by_versions = can_upgrade_to_fields(call.a[1], call.b[1]),
                  !.by_version = can_upgrade_to_fields(without_versions(call.a[1]),
                                                       without_versions(call.b[1]))]
    /\ UNCHANGED ProgramVars

NextMetadata == MetadataParse \/ MetadataCompare

SpecMetadata == InitMetadata /\ [][NextMetadata]_vars

\* C29: for two ContentMetadata built by rpm_parse_metadata, can_upgrade_to
\* gives the same ordering from the `versions` lists as from the `version`
\* strings, also when several packages parse to the same module.
C29_VersionsMatchVersionString ==
    call.pc = "done" => call.by_versions = call.by_version

\* ------------------------------------------------ update after update
\* SpecTwice: updates in one behaviour
MaxUpdates == 2

\* a system with both components installed by bootupd, the image shipping a
\* newer version of each, and nothing but updates run on it
InitTwice ==
    /\ call = NoCall
    /\ InitWith({FileWith({"BIOS", "EFI"}, {})}, {AllExist}, {NoMounts},
             [ops |-> MaxUpdates, par |-> 1, crashes |-> 0, images |-> 0])

NextTwice ==
    \/ \E p \in Procs, name \in Components : UpdateLoad(p, name)
    \/ \E p \in Procs : UpdateLock(p)
    \/ \E p \in Procs : UpdateWritePending(p)
    \/ \E p \in Procs : UpdateWriteFinal(p)
    \/ \E p \in Procs : BiosGrubInstall(p)
    \/ \E p \in Procs : BiosRunUpdateDone(p)
    \/ \E p \in Procs : EfiRunUpdateStart(p)
    \/ \E p \in Procs : EfiEnsureMounted(p)
    \/ \E p \in Procs : EfiApply(p)
    \/ \E p \in Procs : EfiUnmount(p)
    \/ \E p \in Procs : EfiRunUpdateDone(p)

SpecTwice == InitTwice /\ [][NextTwice]_vars

\* C30: once update(name) has returned Updated and the available update is
\* still the one it applied, status reports the component as
\* AtLatestVersion, and the next update(name) returns AtLatestVersion
\* without writing anything.
C30_UpdateConverges ==
    /\ [](\A p \in Procs :
            (proc[p].res.kind = "Updated"
                /\ query_update(avail, proc[p].name) = proc[p].res.new)
            => /\ proc[p].res.status.updatable = "AtLatestVersion"
               /\ status_component(stateFile, avail, proc[p].name).updatable
                     = "AtLatestVersion")
    /\ [][\A p \in Procs :
            (/\ proc[p].res.kind = "Updated"
             /\ query_update(avail, proc[p].name) = proc[p].res.new
             /\ proc'[p] # proc[p]
             /\ proc'[p].op = "update" /\ proc'[p].name = proc[p].name)
            => /\ proc'[p].res.kind = "AtLatestVersion"
               /\ Idle(p)'
               /\ UNCHANGED <<stateFile, esp, grub, mnt>>]_vars

C30_Witness ==
    \E p \in Procs :
        /\ proc[p].res.kind = "AtLatestVersion"
        /\ stateFile.saved.installed[proc[p].name].meta = query_update(avail, proc[p].name)
        /\ unwrap_or_default(proc[p].loaded).installed[proc[p].name].meta
              = query_update(avail, proc[p].name)
        /\ NothingDone(p)

====
